---- MODULE Spec2Model ----
(***************************************************************************)
(* go-vtm: the sample pipeline of the tracker player.                      *)
(*   Envelope / Oscillator / Voice   (package synth)                       *)
(*   VoiceAllocator / Player         (package audio)                       *)
(* Floating-point values are exact rationals [n, d] in lowest terms; the   *)
(* inputs are drawn from values on which float64 arithmetic is exact       *)
(* (dyadic phase increments, integral sample counts).                      *)
(***************************************************************************)
EXTENDS Integers, Sequences, FiniteSets, TLC

VARIABLES
  module,           \* *tracker.TrackerModule given to NewPlayer
  sampleRate,       \* Player.sampleRate
  VoiceAllocators,  \* Player.VoiceAllocators, one VoiceAllocator per channel
  currentPos,       \* Player.currentPos
  currentRow,       \* Player.currentRow
  sampleCounter,    \* Player.sampleCounter
  samplesPerRow,    \* Player.samplesPerRow
  done,             \* Player.done
  pc,               \* "new" before the constructor ran, "ready" after
  calls,            \* number of method calls made on the object under test
  ret,              \* value returned by the last Next() call
  hist,             \* the notes of the NoteOn calls made so far, while no other
                    \* call than NoteOn and Next was made on the allocator
  resets,           \* Reset() calls made
  stolen,           \* the notes evicted by a steal and not played since
  used,             \* how many notes of NoteOrder the driver has used so far
  ev,               \* the last call made: its name, arguments and what it issued
  envelope,         \* the Envelope under test when one is driven on its own
  envLog,           \* the calls made on it: the last one, the Next() calls
                    \* since the last Trigger() and Release(), the level before
  playback,         \* audio.AudioPlayback and its audioReader: the done
                    \* channel, the Read in progress and its buffer
  wav               \* audio.WAVWriter and the RenderToWAV run that owns it

vars == <<module, sampleRate, VoiceAllocators, currentPos, currentRow,
          sampleCounter, samplesPerRow, done, pc, calls, ret, hist,
          resets, stolen, used, ev, envelope, envLog, playback, wav>>

(***************************************************************************)
(* Rational arithmetic standing for float64.                               *)
(***************************************************************************)
Abs(x) == IF x < 0 THEN -x ELSE x

RECURSIVE GCD(_, _)
GCD(a, b) == IF b = 0 THEN a ELSE GCD(b, a % b)

\* a float64 that is no rational the model computes (the sine of an angle
\* that is no whole number of quarter turns): sums, products and quotients
\* with it are Unknown again
Unknown == [n |-> 0, d |-> 0]

\* the rational n/d (d # 0) in lowest terms with a positive denominator
Rat(n, d) ==
  IF d = 0 THEN Unknown
  ELSE LET g == GCD(Abs(n), Abs(d))
           s == IF d < 0 THEN -1 ELSE 1
       IN  [n |-> s * (n \div g), d |-> s * (d \div g)]

R0 == [n |-> 0, d |-> 1]
R1 == [n |-> 1, d |-> 1]
RInt(i) == [n |-> i, d |-> 1]
RAdd(a, b) == Rat(a.n * b.d + b.n * a.d, a.d * b.d)
RSub(a, b) == Rat(a.n * b.d - b.n * a.d, a.d * b.d)
RMul(a, b) == Rat(a.n * b.n, a.d * b.d)
RDiv(a, b) == Rat(a.n * b.d, a.d * b.n)
RLess(a, b) == a.n * b.d < b.n * a.d
RLeq(a, b) == a.n * b.d <= b.n * a.d

\* Go's int(x) of a float: truncation toward zero
TruncToInt(a) == IF a.n >= 0 THEN a.n \div a.d ELSE -((-a.n) \div a.d)

\* math.Round: nearest integer, halves away from zero
RoundToInt(a) ==
  IF a.n >= 0 THEN (2 * a.n + a.d) \div (2 * a.d)
  ELSE -((2 * (-a.n) + a.d) \div (2 * a.d))

RECURSIVE Pow2(_)
Pow2(k) == IF k = 0 THEN 1 ELSE 2 * Pow2(k - 1)

(***************************************************************************)
(* synth.Envelope                                                          *)
(***************************************************************************)
NewEnvelope(attack, decay, sustain, release, rate) ==
  [attackTime |-> attack, decayTime |-> decay, sustainLevel |-> sustain,
   releaseTime |-> release, sampleRate |-> rate,
   stage |-> "Off", level |-> R0, sampleCount |-> 0]

Envelope_Trigger(e) == [e EXCEPT !.stage = "Attack", !.sampleCount = 0]

\* variant: Release() restarts the release whatever the stage
Envelope_Release_Unguarded(e) ==
  [e EXCEPT !.stage = "Release", !.sampleCount = 0]

Envelope_Release(e) ==
  IF e.stage # "Off" THEN [e EXCEPT !.stage = "Release", !.sampleCount = 0]
  ELSE e

\* int(e.attackTime * e.sampleRate) and its siblings
StageSamples(time, rate) == TruncToInt(RMul(time, RInt(rate)))

\* variant: the attack ramp counted from 1
Envelope_NextAttack_FromOne(e) ==
  LET attackSamples == StageSamples(e.attackTime, e.sampleRate) IN
  IF attackSamples = 0 \/ e.sampleCount >= attackSamples
  THEN [e EXCEPT !.level = R1, !.stage = "Decay", !.sampleCount = 0]
  ELSE [e EXCEPT !.level = Rat(e.sampleCount + 1, attackSamples),
                 !.sampleCount = e.sampleCount + 1]

\* case Attack of Next()
Envelope_NextAttack(e) ==
  LET attackSamples == StageSamples(e.attackTime, e.sampleRate) IN
  IF attackSamples = 0 \/ e.sampleCount >= attackSamples
  THEN [e EXCEPT !.level = R1, !.stage = "Decay", !.sampleCount = 0]
  ELSE [e EXCEPT !.level = Rat(e.sampleCount, attackSamples),
                 !.sampleCount = e.sampleCount + 1]

\* variant: the decay ramp rising from the peak (sign of the slope)
Envelope_NextDecay_Rising(e) ==
  LET decaySamples == StageSamples(e.decayTime, e.sampleRate) IN
  IF decaySamples = 0 \/ e.sampleCount >= decaySamples
  THEN [e EXCEPT !.level = e.sustainLevel, !.stage = "Sustain"]
  ELSE LET t == Rat(e.sampleCount, decaySamples) IN
       [e EXCEPT !.level = RSub(R1, RMul(t, RSub(e.sustainLevel, R1))),
                 !.sampleCount = e.sampleCount + 1]

\* variant: the decay ends one call early
Envelope_NextDecay_Early(e) ==
  LET decaySamples == StageSamples(e.decayTime, e.sampleRate) IN
  IF decaySamples = 0 \/ e.sampleCount + 1 >= decaySamples
  THEN [e EXCEPT !.level = e.sustainLevel, !.stage = "Sustain"]
  ELSE LET t == Rat(e.sampleCount, decaySamples) IN
       [e EXCEPT !.level = RAdd(R1, RMul(t, RSub(e.sustainLevel, R1))),
                 !.sampleCount = e.sampleCount + 1]

\* case Decay of Next()
Envelope_NextDecay(e) ==
  LET decaySamples == StageSamples(e.decayTime, e.sampleRate) IN
  IF decaySamples = 0 \/ e.sampleCount >= decaySamples
  THEN [e EXCEPT !.level = e.sustainLevel, !.stage = "Sustain"]
  ELSE LET t == Rat(e.sampleCount, decaySamples) IN
       [e EXCEPT !.level = RAdd(R1, RMul(t, RSub(e.sustainLevel, R1))),
                 !.sampleCount = e.sampleCount + 1]

\* variant: the release goes on one call longer (> for >=)
Envelope_NextRelease_Late(e) ==
  LET releaseSamples == StageSamples(e.releaseTime, e.sampleRate)
      startLevel == e.sustainLevel
  IN
  IF releaseSamples = 0 \/ e.sampleCount > releaseSamples
  THEN [e EXCEPT !.level = R0, !.stage = "Off"]
  ELSE LET t == Rat(e.sampleCount, releaseSamples) IN
       [e EXCEPT !.level = RMul(startLevel, RSub(R1, t)),
                 !.sampleCount = e.sampleCount + 1]

\* case Release of Next()
Envelope_NextRelease(e) ==
  LET releaseSamples == StageSamples(e.releaseTime, e.sampleRate)
      startLevel == e.sustainLevel
  IN
  IF releaseSamples = 0 \/ e.sampleCount >= releaseSamples
  THEN [e EXCEPT !.level = R0, !.stage = "Off"]
  ELSE LET t == Rat(e.sampleCount, releaseSamples) IN
       [e EXCEPT !.level = RMul(startLevel, RSub(R1, t)),
                 !.sampleCount = e.sampleCount + 1]

\* variant: Sustain falls into Release by itself
Envelope_Next_SustainEnds(e) ==
  CASE e.stage = "Attack" -> Envelope_NextAttack(e)
    [] e.stage = "Decay" -> Envelope_NextDecay(e)
    [] e.stage = "Sustain" -> [e EXCEPT !.level = e.sustainLevel,
                                        !.stage = "Release", !.sampleCount = 0]
    [] e.stage = "Release" -> Envelope_NextRelease(e)
    [] OTHER -> [e EXCEPT !.level = R0]

\* the envelope after one Next(); the value returned is its level
Envelope_Next(e) ==
  CASE e.stage = "Attack" -> Envelope_NextAttack(e)
    [] e.stage = "Decay" -> Envelope_NextDecay(e)
    [] e.stage = "Sustain" -> [e EXCEPT !.level = e.sustainLevel]
    [] e.stage = "Release" -> Envelope_NextRelease(e)
    [] OTHER -> [e EXCEPT !.level = R0]

Envelope_IsActive(e) == e.stage # "Off"

(***************************************************************************)
(* synth.Oscillator and synth.NoteToFrequency                              *)
(***************************************************************************)
\* 440 * 2^((note-57)/12), exact for the notes of pitch class A (57 + 12k)
NoteToFrequency(note) ==
  LET k == (note - 57) \div 12 IN
  IF k >= 0 THEN Rat(440 * Pow2(k), 1) ELSE Rat(440, Pow2(-k))

NewOscillator(waveType, rate) ==
  [waveType |-> waveType, frequency |-> R0, phase |-> R0, sampleRate |-> rate]

Oscillator_SetFrequency(o, freq) == [o EXCEPT !.frequency = freq]

\* the sample Oscillator.Next() returns (Square, Saw and Triangle)
Oscillator_Sample(o) ==
  CASE o.waveType = "Square" ->
         IF RLess(o.phase, Rat(1, 2)) THEN R1 ELSE RInt(-1)
    [] o.waveType = "Saw" -> RSub(RMul(RInt(2), o.phase), R1)
    [] OTHER ->
         IF RLess(o.phase, Rat(1, 2))
         THEN RSub(RMul(RInt(4), o.phase), R1)
         ELSE RSub(RInt(3), RMul(RInt(4), o.phase))

\* the oscillator after one Next(): the phase advances and wraps by one
\* subtraction
Oscillator_Next(o) ==
  LET phaseIncrement == RDiv(o.frequency, RInt(o.sampleRate))
      p == RAdd(o.phase, phaseIncrement)
  IN  [o EXCEPT !.phase = IF RLeq(R1, p) THEN RSub(p, R1) ELSE p]

(***************************************************************************)
(* synth.FMOperator and synth.FMInstrument                                 *)
(***************************************************************************)
\* a nil pointer: any field access on it fails
Nil == [nil |-> TRUE]

\* math.Sin(2*pi*phase + modulation): rational for an unmodulated operator
\* at a whole number of quarter turns
SinTurns(phase, modulation) ==
  LET q == RMul(RInt(4), phase) IN
  CASE modulation = R0 /\ q.d = 1 /\ q.n % 4 = 0 -> R0
    [] modulation = R0 /\ q.d = 1 /\ q.n % 4 = 1 -> R1
    [] modulation = R0 /\ q.d = 1 /\ q.n % 4 = 2 -> R0
    [] modulation = R0 /\ q.d = 1 /\ q.n % 4 = 3 -> RInt(-1)
    [] OTHER -> Unknown

NewFMOperator(rate) ==
  [phase |-> R0, frequency |-> R0, sampleRate |-> rate,
   envelope |-> NewEnvelope(Rat(1, 100), Rat(1, 10), Rat(6, 10), Rat(2, 10), rate),
   outputLevel |-> R1, ratio |-> R1]

FMOperator_SetEnvelope(op, attack, decay, sustain, release) ==
  [op EXCEPT !.envelope = NewEnvelope(attack, decay, sustain, release,
                                      op.sampleRate)]

FMOperator_SetRatio(op, ratio) == [op EXCEPT !.ratio = ratio]

FMOperator_SetOutputLevel(op, level) == [op EXCEPT !.outputLevel = level]

FMOperator_SetFrequency(op, freq) ==
  [op EXCEPT !.frequency = RMul(freq, op.ratio)]

FMOperator_Trigger(op) ==
  [op EXCEPT !.envelope = Envelope_Trigger(@), !.phase = R0]

FMOperator_Release(op) == [op EXCEPT !.envelope = Envelope_Release(@)]

\* FMOperator.Next(modulation) with env = e2.level and the phase advanced to
\* p; the phase wraps by math.Floor
FMOperator_Advance(op, e2, p, modulation) ==
  [op |-> [op EXCEPT !.envelope = e2,
                     !.phase = IF RLeq(R1, p)
                               THEN RSub(p, RInt(p.n \div p.d)) ELSE p],
   sample |-> RMul(RMul(SinTurns(op.phase, modulation), e2.level),
                   op.outputLevel)]

\* FMOperator.Next(modulation): [op |-> the operator afterwards, sample |->
\* the value returned]
FMOperator_Next(op, modulation) ==
  FMOperator_Advance(op, Envelope_Next(op.envelope),
                     RAdd(op.phase, RDiv(op.frequency, RInt(op.sampleRate))),
                     modulation)

FMOperator_IsActive(op) == Envelope_IsActive(op.envelope)

NewFMInstrument(numOperators, algorithm, rate) ==
  [operators |-> [i \in 1..numOperators |-> NewFMOperator(rate)],
   algorithm |-> algorithm, modulationIndex |-> RInt(2), sampleRate |-> rate,
   baseFrequency |-> R0, volume |-> R1]

\* opIndex counts from 0 as in the source
SetOperatorRatio(fm, opIndex, ratio) ==
  IF opIndex < Len(fm.operators)
  THEN [fm EXCEPT !.operators[opIndex + 1] = FMOperator_SetRatio(@, ratio)]
  ELSE fm

SetOperatorEnvelope(fm, opIndex, attack, decay, sustain, release) ==
  IF opIndex < Len(fm.operators)
  THEN [fm EXCEPT !.operators[opIndex + 1] =
                     FMOperator_SetEnvelope(@, attack, decay, sustain, release)]
  ELSE fm

SetOperatorLevel(fm, opIndex, level) ==
  IF opIndex < Len(fm.operators)
  THEN [fm EXCEPT !.operators[opIndex + 1] = FMOperator_SetOutputLevel(@, level)]
  ELSE fm

SetModulationIndex(fm, index) == [fm EXCEPT !.modulationIndex = index]

\* the three calls each preset makes for one operator
SetOperator(fm, opIndex, ratio, attack, decay, sustain, release, level) ==
  SetOperatorLevel(
    SetOperatorEnvelope(SetOperatorRatio(fm, opIndex, ratio),
                        opIndex, attack, decay, sustain, release),
    opIndex, level)

FMInstrument_NoteOn(fm, note, velocity) ==
  LET baseFrequency == NoteToFrequency(note) IN
  [fm EXCEPT !.baseFrequency = baseFrequency,
             !.volume = velocity,
             !.operators =
                [i \in DOMAIN fm.operators |->
                   FMOperator_Trigger(
                     FMOperator_SetFrequency(fm.operators[i], baseFrequency))]]

FMInstrument_NoteOff(fm) ==
  [fm EXCEPT !.operators =
                [i \in DOMAIN fm.operators |-> FMOperator_Release(fm.operators[i])]]

\* the operators an algorithm runs
OperatorCount(algorithm) ==
  CASE algorithm = "FM2OpSimple" -> 2
    [] algorithm = "FM2OpParallel" -> 2
    [] algorithm = "FM3OpStack" -> 3
    [] algorithm = "FM4OpPiano" -> 4
    [] OTHER -> 0

\* the modulation FMInstrument.Next() passes to operator k (operators[k-1]),
\* samples[j] being what operator j returned: every algorithm runs the
\* operators it feeds an operator from before that operator
Modulation(fm, k, samples) ==
  CASE fm.algorithm = "FM2OpSimple" /\ k = 1 ->
         RMul(samples[2], fm.modulationIndex)
    [] fm.algorithm = "FM3OpStack" /\ k \in {1, 2} ->
         RMul(samples[k + 1], fm.modulationIndex)
    [] fm.algorithm = "FM4OpPiano" /\ k = 3 ->
         RMul(RMul(samples[4], fm.modulationIndex), Rat(1, 2))
    [] fm.algorithm = "FM4OpPiano" /\ k = 1 ->
         RAdd(RMul(samples[3], fm.modulationIndex),
              RMul(RMul(samples[2], fm.modulationIndex), Rat(3, 10)))
    [] OTHER -> R0

\* operator k after its Next(), r being what FMOperator_Next gave
OperatorRan(run, k, r) ==
  [operators |-> [run.operators EXCEPT ![k] = r.op],
   samples |-> [run.samples EXCEPT ![k] = r.sample]]

\* the Next() calls of FMInstrument.Next() on operators k, k-1, .., 1
RECURSIVE OperatorsNext(_, _, _)
OperatorsNext(fm, k, run) ==
  IF k = 0 THEN run
  ELSE OperatorsNext(
         fm, k - 1,
         OperatorRan(run, k,
                     FMOperator_Next(fm.operators[k],
                                     Modulation(fm, k, run.samples))))

\* output * fm.volume
FMInstrument_Output(fm, run) ==
  [fm |-> [fm EXCEPT !.operators = run.operators],
   sample |-> RMul(IF fm.algorithm = "FM2OpParallel"
                   THEN RMul(RAdd(run.samples[1], run.samples[2]), Rat(1, 2))
                   ELSE run.samples[1],
                   fm.volume)]

\* FMInstrument.Next(): [fm |-> the instrument afterwards, sample |-> the
\* value returned]; an algorithm with fewer operators than it needs advances
\* none and gives 0
FMInstrument_Next(fm) ==
  IF OperatorCount(fm.algorithm) = 0
     \/ Len(fm.operators) < OperatorCount(fm.algorithm)
  THEN [fm |-> fm, sample |-> R0]
  ELSE FMInstrument_Output(
         fm,
         OperatorsNext(fm, OperatorCount(fm.algorithm),
                       [operators |-> fm.operators,
                        samples |-> [i \in DOMAIN fm.operators |-> R0]]))

\* variant: only the last operator is asked
FMInstrument_IsActive_LastOnly(fm) ==
  Len(fm.operators) > 0
  /\ FMOperator_IsActive(fm.operators[Len(fm.operators)])

FMInstrument_IsActive(fm) ==
  \E i \in DOMAIN fm.operators : FMOperator_IsActive(fm.operators[i])

NewPianoFMInstrument(rate) ==
  LET fm0 == NewFMInstrument(4, "FM4OpPiano", rate)
      fm1 == SetOperator(fm0, 0, R1, Rat(1, 1000), Rat(3, 10), R0, Rat(2, 10), R1)
      fm2 == SetOperator(fm1, 1, RInt(2), Rat(1, 1000), Rat(15, 100), R0,
                         Rat(1, 10), Rat(7, 10))
      fm3 == SetOperator(fm2, 2, Rat(35, 10), Rat(1, 1000), Rat(2, 10), R0,
                         Rat(15, 100), Rat(5, 10))
      fm4 == SetOperator(fm3, 3, RInt(5), Rat(5, 10000), Rat(5, 100), R0,
                         Rat(5, 100), Rat(4, 10))
  IN  SetModulationIndex(fm4, Rat(15, 10))

NewElectricPianoFMInstrument(rate) ==
  LET fm0 == NewFMInstrument(2, "FM2OpSimple", rate)
      fm1 == SetOperator(fm0, 0, R1, Rat(2, 1000), Rat(4, 10), Rat(3, 10),
                         Rat(3, 10), R1)
      fm2 == SetOperator(fm1, 1, RInt(14), Rat(1, 1000), Rat(2, 10), R0,
                         Rat(2, 10), Rat(8, 10))
  IN  SetModulationIndex(fm2, RInt(3))

NewFMBassFMInstrument(rate) ==
  LET fm0 == NewFMInstrument(3, "FM3OpStack", rate)
      fm1 == SetOperator(fm0, 0, R1, Rat(1, 1000), Rat(2, 10), Rat(7, 10),
                         Rat(15, 100), R1)
      fm2 == SetOperator(fm1, 1, Rat(201, 100), Rat(1, 1000), Rat(15, 100),
                         Rat(5, 10), Rat(1, 10), Rat(9, 10))
      fm3 == SetOperator(fm2, 2, RInt(4), Rat(5, 10000), Rat(8, 100),
                         Rat(2, 10), Rat(5, 100), Rat(7, 10))
  IN  SetModulationIndex(fm3, Rat(35, 10))

NewFMLeadFMInstrument(rate) ==
  LET fm0 == NewFMInstrument(2, "FM2OpSimple", rate)
      fm1 == SetOperator(fm0, 0, R1, Rat(5, 1000), Rat(1, 10), Rat(8, 10),
                         Rat(15, 100), R1)
      fm2 == SetOperator(fm1, 1, RInt(3), Rat(2, 1000), Rat(8, 100),
                         Rat(6, 10), Rat(1, 10), R1)
  IN  SetModulationIndex(fm2, RInt(5))

NewFMBrassFMInstrument(rate) ==
  LET fm0 == NewFMInstrument(3, "FM3OpStack", rate)
      fm1 == SetOperator(fm0, 0, R1, Rat(2, 100), Rat(15, 100), Rat(7, 10),
                         Rat(2, 10), R1)
      fm2 == SetOperator(fm1, 1, Rat(15, 10), Rat(15, 1000), Rat(12, 100),
                         Rat(6, 10), Rat(15, 100), Rat(8, 10))
      fm3 == SetOperator(fm2, 2, RInt(3), Rat(1, 100), Rat(1, 10), Rat(5, 10),
                         Rat(12, 100), Rat(6, 10))
  IN  SetModulationIndex(fm3, RInt(2))

NewFMBellFMInstrument(rate) ==
  LET fm0 == NewFMInstrument(2, "FM2OpSimple", rate)
      fm1 == SetOperator(fm0, 0, R1, Rat(1, 1000), Rat(5, 10), Rat(2, 10),
                         Rat(4, 10), R1)
      fm2 == SetOperator(fm1, 1, RInt(11), Rat(1, 1000), Rat(3, 10), R0,
                         Rat(3, 10), Rat(9, 10))
  IN  SetModulationIndex(fm2, RInt(4))

NewFMArpFMInstrument(rate) ==
  LET fm0 == NewFMInstrument(2, "FM2OpSimple", rate)
      fm1 == SetOperator(fm0, 0, R1, Rat(1, 1000), Rat(5, 100), Rat(3, 10),
                         Rat(5, 100), R1)
      fm2 == SetOperator(fm1, 1, RInt(2), Rat(1, 1000), Rat(3, 100),
                         Rat(1, 10), Rat(3, 100), Rat(85, 100))
  IN  SetModulationIndex(fm2, Rat(25, 10))

(***************************************************************************)
(* synth.Voice                                                             *)
(***************************************************************************)
NewVoice(waveType, rate) ==
  [oscillator |-> NewOscillator(waveType, rate),
   envelope |-> NewEnvelope(Rat(1, 100), Rat(1, 10), Rat(6, 10), Rat(2, 10), rate),
   fmInstrument |-> Nil,
   volume |-> R1, active |-> FALSE, useFM |-> FALSE, sampleRate |-> rate]

NewFMVoice(fmInstrument) ==
  [oscillator |-> Nil, envelope |-> Nil, fmInstrument |-> fmInstrument,
   volume |-> R1, active |-> FALSE, useFM |-> TRUE,
   sampleRate |-> fmInstrument.sampleRate]

\* v.useFM && v.fmInstrument != nil
Voice_OnFMPath(v) == v.useFM /\ v.fmInstrument # Nil

Voice_SetInstrument(v, waveType, attack, decay, sustain, release) ==
  IF v.useFM THEN v
  ELSE [v EXCEPT !.oscillator.waveType = waveType,
                 !.envelope.attackTime = attack,
                 !.envelope.decayTime = decay,
                 !.envelope.sustainLevel = sustain,
                 !.envelope.releaseTime = release]

Voice_NoteOn(v, note, volume) ==
  IF Voice_OnFMPath(v)
  THEN [v EXCEPT !.volume = volume, !.active = TRUE,
                 !.fmInstrument = FMInstrument_NoteOn(@, note, volume)]
  ELSE [v EXCEPT !.volume = volume, !.active = TRUE,
                 !.oscillator = Oscillator_SetFrequency(@, NoteToFrequency(note)),
                 !.envelope = Envelope_Trigger(@)]

Voice_NoteOff(v) ==
  IF Voice_OnFMPath(v)
  THEN [v EXCEPT !.fmInstrument = FMInstrument_NoteOff(@)]
  ELSE [v EXCEPT !.envelope = Envelope_Release(@)]

Voice_IsActive(v) ==
  IF Voice_OnFMPath(v)
  THEN v.active \/ FMInstrument_IsActive(v.fmInstrument)
  ELSE v.active \/ Envelope_IsActive(v.envelope)

\* Voice.Next() on the FM path, r being what fmInstrument.Next() gave
Voice_AfterFM(v, r) ==
  [voice |-> [v EXCEPT !.fmInstrument = r.fm,
                       !.active = IF ~FMInstrument_IsActive(r.fm)
                                  THEN FALSE ELSE @],
   sample |-> r.sample]

\* Voice.Next(): [voice |-> the voice afterwards, sample |-> the value returned]
Voice_Next(v) ==
  IF Voice_OnFMPath(v)
  THEN IF ~v.active /\ ~FMInstrument_IsActive(v.fmInstrument)
       THEN [voice |-> v, sample |-> R0]
       ELSE Voice_AfterFM(v, FMInstrument_Next(v.fmInstrument))
  ELSE
  IF ~v.active /\ ~Envelope_IsActive(v.envelope)
  THEN [voice |-> v, sample |-> R0]
  ELSE LET osc == Oscillator_Sample(v.oscillator)
           e2  == Envelope_Next(v.envelope)
           env == e2.level
       IN  [voice |-> [v EXCEPT !.oscillator = Oscillator_Next(@),
                                !.envelope = e2,
                                !.active = IF ~Envelope_IsActive(e2) THEN FALSE ELSE @],
            sample |-> RMul(RMul(osc, env), v.volume)]

(***************************************************************************)
(* audio.VoiceAllocator.  A *synth.Voice is the index of its pool slot:    *)
(* voices[i] is slot i-1 of the Go slice, and noteMap maps a note to the   *)
(* index of the voice it points to.                                        *)
(***************************************************************************)
\* make(map[int]*synth.Voice)
EmptyMap == [k \in {} |-> 0]

\* the FM instrument NewVoiceAllocator builds for a preset name
FMPresetInstrument(preset, rate) ==
  CASE preset = "PIANO" -> NewPianoFMInstrument(rate)
    [] preset = "EPIANO" -> NewElectricPianoFMInstrument(rate)
    [] preset = "BASS" -> NewFMBassFMInstrument(rate)
    [] preset = "LEAD" -> NewFMLeadFMInstrument(rate)
    [] preset = "BRASS" -> NewFMBrassFMInstrument(rate)
    [] preset = "BELL" -> NewFMBellFMInstrument(rate)
    [] preset = "ARP" -> NewFMArpFMInstrument(rate)
    [] OTHER -> NewFMLeadFMInstrument(rate)

NewVoiceAllocator(instrument, rate, maxVoices) ==
  [voices |-> [i \in 1..maxVoices |->
                 IF instrument.IsFM
                 THEN NewFMVoice(FMPresetInstrument(instrument.FMPreset, rate))
                 ELSE Voice_SetInstrument(NewVoice(instrument.WaveType, rate),
                                          instrument.WaveType, instrument.Attack,
                                          instrument.Decay, instrument.Sustain,
                                          instrument.Release)],
   noteMap |-> EmptyMap,
   maxVoices |-> maxVoices,
   activeNotes |-> << >>]

\* delete(m, key)
MapDelete(m, key) == [k \in DOMAIN m \ {key} |-> m[k]]

\* m[key] = value
MapPut(m, key, value) ==
  [k \in DOMAIN m \cup {key} |-> IF k = key THEN value ELSE m[k]]

\* the first voice of the pool that is not active, 0 when there is none
FirstInactive(voices) ==
  LET free == {i \in DOMAIN voices : ~Voice_IsActive(voices[i])} IN
  IF free = {} THEN 0 ELSE CHOOSE i \in free : \A j \in free : i <= j

\* the note whose voice is stolen: activeNotes[0]
OldestNote(va) == va.activeNotes[1]

NoteOn_Restart_MovesToTail(va, note, velocity) ==
  [va EXCEPT !.voices[va.noteMap[note]] = Voice_NoteOn(@, note, velocity),
             !.activeNotes = Append(SelectSeq(@, LAMBDA x : x # note), note)]

\* NoteOn for a note already in the map: the same voice is restarted
NoteOn_Restart(va, note, velocity) ==
  [va EXCEPT !.voices[va.noteMap[note]] = Voice_NoteOn(@, note, velocity)]

NoteOn_Allocate_NoEvict(va, note, velocity) ==
  LET inactive == FirstInactive(va.voices)
      steal == inactive = 0 /\ Len(va.activeNotes) > 0
      selectedVoice ==
        IF inactive # 0 THEN inactive
        ELSE IF steal THEN va.noteMap[va.activeNotes[1]]
        ELSE 1
  IN  [va EXCEPT !.voices[selectedVoice] = Voice_NoteOn(@, note, velocity),
                 !.noteMap = MapPut(va.noteMap, note, selectedVoice),
                 !.activeNotes = Append(va.activeNotes, note)]

NoteOn_Allocate_KeepsStolen(va, note, velocity) ==
  LET inactive == FirstInactive(va.voices)
      steal == inactive = 0 /\ Len(va.activeNotes) > 0
      selectedVoice ==
        IF inactive # 0 THEN inactive
        ELSE IF steal THEN va.noteMap[va.activeNotes[1]]
        ELSE 1
      act1 == IF steal THEN Tail(va.activeNotes) ELSE va.activeNotes
  IN  [va EXCEPT !.voices[selectedVoice] = Voice_NoteOn(@, note, velocity),
                 !.noteMap = MapPut(va.noteMap, note, selectedVoice),
                 !.activeNotes = Append(act1, note)]

NoteOn_Allocate_StealsFirst(va, note, velocity) ==
  LET inactive == FirstInactive(va.voices)
      steal == Len(va.activeNotes) > 0
      oldestNote == OldestNote(va)
      selectedVoice ==
        IF steal THEN va.noteMap[oldestNote]
        ELSE IF inactive # 0 THEN inactive
        ELSE 1
      map1 == IF steal THEN MapDelete(va.noteMap, oldestNote) ELSE va.noteMap
      act1 == IF steal THEN Tail(va.activeNotes) ELSE va.activeNotes
  IN  [va EXCEPT !.voices[selectedVoice] = Voice_NoteOn(@, note, velocity),
                 !.noteMap = MapPut(map1, note, selectedVoice),
                 !.activeNotes = Append(act1, note)]


\* NoteOn for a note that is not in the map: find or steal a voice
NoteOn_Allocate(va, note, velocity) ==
  LET inactive == FirstInactive(va.voices)
      steal == inactive = 0 /\ Len(va.activeNotes) > 0
      oldestNote == OldestNote(va)
      selectedVoice ==
        IF inactive # 0 THEN inactive
        ELSE IF steal THEN va.noteMap[oldestNote]
        ELSE 1
      map1 == IF steal THEN MapDelete(va.noteMap, oldestNote) ELSE va.noteMap
      act1 == IF steal THEN Tail(va.activeNotes) ELSE va.activeNotes
  IN  [va EXCEPT !.voices[selectedVoice] = Voice_NoteOn(@, note, velocity),
                 !.noteMap = MapPut(map1, note, selectedVoice),
                 !.activeNotes = Append(act1, note)]

VoiceAllocator_NoteOn(va, note, velocity) ==
  IF note \in DOMAIN va.noteMap
  THEN NoteOn_Restart(va, note, velocity)
  ELSE NoteOn_Allocate(va, note, velocity)

RemoveFirst_Swap(a, note) ==
  IF \E i \in DOMAIN a : a[i] = note
  THEN LET i == CHOOSE k \in DOMAIN a :
                  a[k] = note /\ \A j \in 1..(k - 1) : a[j] # note
       IN  SubSeq([a EXCEPT ![i] = a[Len(a)]], 1, Len(a) - 1)
  ELSE a

\* a[:i] ++ a[i+1:] for the first i with a[i] = note
RemoveFirst(a, note) ==
  IF \E i \in DOMAIN a : a[i] = note
  THEN LET i == CHOOSE k \in DOMAIN a :
                  a[k] = note /\ \A j \in 1..(k - 1) : a[j] # note
       IN  SubSeq(a, 1, i - 1) \o SubSeq(a, i + 1, Len(a))
  ELSE a

VoiceAllocator_NoteOff_Unguarded(va, note) ==
  LET k == IF note \in DOMAIN va.noteMap THEN va.noteMap[note] ELSE 1 IN
  [va EXCEPT !.voices[k] = Voice_NoteOff(@),
             !.noteMap = MapDelete(@, note),
             !.activeNotes = RemoveFirst(@, note)]

VoiceAllocator_NoteOff(va, note) ==
  IF note \in DOMAIN va.noteMap
  THEN [va EXCEPT !.voices[va.noteMap[note]] = Voice_NoteOff(@),
                  !.noteMap = MapDelete(@, note),
                  !.activeNotes = RemoveFirst(@, note)]
  ELSE va

VoiceAllocator_AllNotesOff_MappedOnly(va) ==
  [va EXCEPT !.voices = [i \in DOMAIN va.voices |->
                           IF \E n \in DOMAIN va.noteMap : va.noteMap[n] = i
                           THEN Voice_NoteOff(va.voices[i]) ELSE va.voices[i]],
             !.noteMap = EmptyMap,
             !.activeNotes = << >>]

VoiceAllocator_AllNotesOff(va) ==
  [va EXCEPT !.voices = [i \in DOMAIN va.voices |-> Voice_NoteOff(va.voices[i])],
             !.noteMap = EmptyMap,
             !.activeNotes = << >>]

\* the pool after Next(): only the voices active at the call are advanced
VoiceAllocator_NextVoices(va) ==
  [i \in DOMAIN va.voices |->
     IF Voice_IsActive(va.voices[i]) THEN Voice_Next(va.voices[i]).voice
     ELSE va.voices[i]]

RECURSIVE SumSamples(_, _)
SumSamples(voices, n) ==
  IF n = 0 THEN R0
  ELSE RAdd(SumSamples(voices, n - 1),
            IF Voice_IsActive(voices[n]) THEN Voice_Next(voices[n]).sample
            ELSE R0)

VoiceAllocator_Next_DividesByPool(va) ==
  [va |-> [va EXCEPT !.voices = VoiceAllocator_NextVoices(va)],
   sample |-> RDiv(SumSamples(va.voices, Len(va.voices)), RInt(va.maxVoices))]

\* VoiceAllocator.Next(): [va |-> the allocator afterwards, sample |-> returned]
VoiceAllocator_Next(va) ==
  LET activeCount == Cardinality({i \in DOMAIN va.voices :
                                    Voice_IsActive(va.voices[i])})
      sample == SumSamples(va.voices, Len(va.voices))
  IN  [va |-> [va EXCEPT !.voices = VoiceAllocator_NextVoices(va)],
       sample |-> IF activeCount > 0 THEN RDiv(sample, RInt(activeCount))
                  ELSE sample]

VoiceAllocator_IsActive(va) ==
  \E i \in DOMAIN va.voices : Voice_IsActive(va.voices[i])

VoiceAllocator_SetVoiceNote_Maps(va, voiceIndex, note, velocity) ==
  IF voiceIndex >= 0 /\ voiceIndex < Len(va.voices)
  THEN [va EXCEPT !.voices[voiceIndex + 1] = Voice_NoteOn(@, note, velocity),
                  !.noteMap = MapPut(@, note, voiceIndex + 1)]
  ELSE va

\* SetVoiceNote(voiceIndex, note, velocity): voices[voiceIndex] is pool slot
\* voiceIndex + 1
VoiceAllocator_SetVoiceNote(va, voiceIndex, note, velocity) ==
  IF voiceIndex >= 0 /\ voiceIndex < Len(va.voices)
  THEN [va EXCEPT !.voices[voiceIndex + 1] = Voice_NoteOn(@, note, velocity)]
  ELSE va

VoiceAllocator_ReleaseVoice_ReleasesNext(va, voiceIndex) ==
  IF voiceIndex >= 0 /\ voiceIndex < Len(va.voices)
  THEN [va EXCEPT !.voices[((voiceIndex + 1) % Len(va.voices)) + 1] = Voice_NoteOff(@)]
  ELSE va

\* ReleaseVoice(voiceIndex)
VoiceAllocator_ReleaseVoice(va, voiceIndex) ==
  IF voiceIndex >= 0 /\ voiceIndex < Len(va.voices)
  THEN [va EXCEPT !.voices[voiceIndex + 1] = Voice_NoteOff(@)]
  ELSE va

\* PlayChord(notes, velocity): NoteOn for each note in order
RECURSIVE VoiceAllocator_PlayChord(_, _, _)
VoiceAllocator_PlayChord(va, notes, velocity) ==
  IF notes = << >> THEN va
  ELSE VoiceAllocator_PlayChord(VoiceAllocator_NoteOn(va, Head(notes), velocity),
                                Tail(notes), velocity)

\* ReleaseChord(notes): NoteOff for each note in order
RECURSIVE VoiceAllocator_ReleaseChord(_, _)
VoiceAllocator_ReleaseChord(va, notes) ==
  IF notes = << >> THEN va
  ELSE VoiceAllocator_ReleaseChord(VoiceAllocator_NoteOff(va, Head(notes)),
                                   Tail(notes))


GetActiveNotes(va) == va.activeNotes

GetActiveVoiceCount(va) == Len(va.activeNotes)

(***************************************************************************)
(* audio.Player                                                            *)
(***************************************************************************)
numChannels == 8
maxPolyphony == 4

defaultInst ==
  [Name |-> "Default", WaveType |-> "Square", Attack |-> Rat(1, 100),
   Decay |-> Rat(1, 10), Sustain |-> Rat(6, 10), Release |-> Rat(2, 10),
   IsFM |-> FALSE, FMPreset |-> ""]

\* variant: math.Round in place of int()
SamplesPerRow_Rounded(tempo, rate) ==
  RoundToInt(RMul(RDiv(RDiv(RInt(60), RInt(tempo)), RInt(4)), RInt(rate)))

\* int(secondsPerRow * samplesPerSecond), tempo # 0
SamplesPerRow(tempo, rate) ==
  LET secondsPerBeat == RDiv(RInt(60), RInt(tempo))
      secondsPerRow == RDiv(secondsPerBeat, RInt(4))
  IN  TruncToInt(RMul(secondsPerRow, RInt(rate)))

\* the allocators NewPlayer builds: channel i gets module instrument i, or
\* the default instrument
NewPlayerAllocators(m, rate) ==
  [i \in 1..numChannels |->
     NewVoiceAllocator(IF i <= Len(m.Instruments) THEN m.Instruments[i]
                       ELSE defaultInst,
                       rate, maxPolyphony)]

\* the NoteOn calls of the chord pitches >= 0, in order, from index k on
RECURSIVE ChordOn(_, _, _, _)
ChordOn(va, chord, k, velocity) ==
  IF k > Len(chord) THEN va
  ELSE ChordOn(IF chord[k] >= 0 THEN VoiceAllocator_NoteOn(va, chord[k], velocity)
               ELSE va,
               chord, k + 1, velocity)

\* variant: the chord pitches triggered before the main pitch
ProcessNote_ChordFirst(va, note) ==
  IF note.Note >= 0
  THEN LET velocity == IF note.Volume = R0 THEN R1 ELSE note.Volume IN
       VoiceAllocator_NoteOn(ChordOn(va, note.Chord, 1, velocity),
                             note.Note, velocity)
  ELSE IF note.Note = -2 THEN VoiceAllocator_AllNotesOff(va)
  ELSE va

\* variant: every negative pitch taken for a note-off
ProcessNote_RestReleases(va, note) ==
  IF note.Note >= 0
  THEN LET velocity == IF note.Volume = R0 THEN R1 ELSE note.Volume IN
       ChordOn(VoiceAllocator_NoteOn(va, note.Note, velocity),
               note.Chord, 1, velocity)
  ELSE VoiceAllocator_AllNotesOff(va)

\* what processRow does to one channel's allocator for the event `note`
ProcessNote(va, note) ==
  IF note.Note >= 0
  THEN LET velocity == IF note.Volume = R0 THEN R1 ELSE note.Volume IN
       ChordOn(VoiceAllocator_NoteOn(va, note.Note, velocity),
               note.Chord, 1, velocity)
  ELSE IF note.Note = -2 THEN VoiceAllocator_AllNotesOff(va)
  ELSE va

\* variant: a note-off on one channel silences every channel
processRow_OffEveryChannel(allocs, m, pos, row) ==
  IF pos >= Len(m.Sequence) THEN allocs
  ELSE LET patternIdx == m.Sequence[pos + 1] IN
       IF patternIdx >= Len(m.Patterns) THEN allocs
       ELSE LET pattern == m.Patterns[patternIdx + 1]
                read(i) == i <= Len(pattern.Channels)
                             /\ row < Len(pattern.Channels[i])
                anyOff == \E i \in DOMAIN allocs :
                            read(i) /\ pattern.Channels[i][row + 1].Note = -2
                rowed(i) == IF read(i)
                            THEN ProcessNote(allocs[i], pattern.Channels[i][row + 1])
                            ELSE allocs[i]
            IN  [i \in DOMAIN allocs |->
                   IF anyOff THEN VoiceAllocator_AllNotesOff(rowed(i))
                   ELSE rowed(i)]

\* Player.processRow on a valid cursor: channel index ch is allocator i = ch+1
processRow(allocs, m, pos, row) ==
  IF pos >= Len(m.Sequence) THEN allocs
  ELSE LET patternIdx == m.Sequence[pos + 1] IN
       IF patternIdx >= Len(m.Patterns) THEN allocs
       ELSE LET pattern == m.Patterns[patternIdx + 1] IN
            [i \in DOMAIN allocs |->
               IF i <= Len(pattern.Channels) /\ row < Len(pattern.Channels[i])
               THEN ProcessNote(allocs[i], pattern.Channels[i][row + 1])
               ELSE allocs[i]]

\* processRow indexes module.Patterns with a negative sequence entry
RowPanics(m, pos) ==
  pos < Len(m.Sequence) /\ m.Sequence[pos + 1] < 0

RECURSIVE MixSum(_, _)
MixSum(allocs, n) ==
  IF n = 0 THEN R0
  ELSE RAdd(MixSum(allocs, n - 1), VoiceAllocator_Next(allocs[n]).sample)

\* variant: the row ends one sample late (> for >=)
Advance_LateRow(m, counter, perRow, row, pos, isDone) ==
  IF counter + 1 > perRow
  THEN LET row1 == row + 1
           endOfPattern ==
             /\ pos < Len(m.Sequence)
             /\ m.Sequence[pos + 1] < Len(m.Patterns)
             /\ row1 >= m.Patterns[m.Sequence[pos + 1] + 1].Rows
       IN  IF endOfPattern
           THEN [counter |-> 0, row |-> 0, pos |-> pos + 1,
                 done |-> IF pos + 1 >= Len(m.Sequence) THEN TRUE ELSE isDone]
           ELSE [counter |-> 0, row |-> row1, pos |-> pos, done |-> isDone]
  ELSE [counter |-> counter + 1, row |-> row, pos |-> pos, done |-> isDone]

\* the cursor after the sample counter was advanced:
\* [counter, row, pos, done]
Advance(m, counter, perRow, row, pos, isDone) ==
  IF counter + 1 >= perRow
  THEN LET row1 == row + 1
           endOfPattern ==
             /\ pos < Len(m.Sequence)
             /\ m.Sequence[pos + 1] < Len(m.Patterns)
             /\ row1 >= m.Patterns[m.Sequence[pos + 1] + 1].Rows
       IN  IF endOfPattern
           THEN [counter |-> 0, row |-> 0, pos |-> pos + 1,
                 done |-> IF pos + 1 >= Len(m.Sequence) THEN TRUE ELSE isDone]
           ELSE [counter |-> 0, row |-> row1, pos |-> pos, done |-> isDone]
  ELSE [counter |-> counter + 1, row |-> row, pos |-> pos, done |-> isDone]

(***************************************************************************)
(* Inputs                                                                  *)
(***************************************************************************)
MaxCalls == 7       \* method calls made on a standalone allocator

\* pitch class A: NoteToFrequency is exact, and at 1760 Hz the phase
\* increments are 1/16, 1/8, 1/4, 1/2 and 1
NoteOrder == <<57, 69, 45, 81, 33>>
Notes == {NoteOrder[i] : i \in DOMAIN NoteOrder}
\* the driver uses the notes in the order of NoteOrder: the notes it may pass
\* next are the ones used so far and the first unused one
Known(n) == {NoteOrder[i] : i \in 1..(IF n < Len(NoteOrder) THEN n + 1 ELSE n)}
UseNote(n, note) ==
  IF n < Len(NoteOrder) /\ note = NoteOrder[n + 1] THEN n + 1 ELSE n
Velocities == {R1}
Rates == {1760}

\* attack 1 sample, decay 1 sample, release 2 samples at 1760 Hz
ShortInst ==
  [Name |-> "Short", WaveType |-> "Square", Attack |-> Rat(6, 10000),
   Decay |-> Rat(6, 10000), Sustain |-> Rat(1, 2), Release |-> Rat(12, 10000),
   IsFM |-> FALSE, FMPreset |-> ""]

\* every stage shorter than one sample at 1760 Hz
ZeroInst ==
  [Name |-> "Zero", WaveType |-> "Saw", Attack |-> Rat(3, 10000),
   Decay |-> R0, Sustain |-> Rat(1, 2), Release |-> Rat(3, 10000),
   IsFM |-> FALSE, FMPreset |-> ""]

AllocInstruments == {ShortInst, ZeroInst}

\* the last call: its name and arguments, the cursor at which it processed a
\* row, and what it found: whether the note was mapped, how many voices were
\* active and how many notes listed, whether a channel resting in the row
\* held a voice in Sustain; index, notes: the voice index of a direct voice
\* call, the notes of a chord call; n, ok, samples: what Stream returned and
\* the buffer as it left it; tail: the Next() calls made on an allocator
\* since AllNotesOff() with no other call in between, -1 when there was
\* another call or no AllNotesOff()
NoEvent ==
  [op |-> "none", note |-> -1, vel |-> R0, pos |-> -1, row |-> -1,
   mapped |-> FALSE, nActive |-> 0, nNotes |-> 0, held |-> FALSE,
   n |-> 0, ok |-> FALSE, samples |-> << >>, index |-> -1, notes |-> << >>,
   tail |-> -1]
Event(op, note, vel) == [NoEvent EXCEPT !.op = op, !.note = note, !.vel = vel]
ActiveVoices(va) == {i \in DOMAIN va.voices : Voice_IsActive(va.voices[i])}
AllocEvent(op, note, vel, va) ==
  [Event(op, note, vel) EXCEPT !.mapped = note \in DOMAIN va.noteMap,
                               !.nActive = Cardinality(ActiveVoices(va)),
                               !.nNotes = Len(va.activeNotes)]

Poisoned == <<-1>>
HistAdd(h, note) == IF h = Poisoned THEN Poisoned ELSE Append(h, note)

(***************************************************************************)
(* A standalone VoiceAllocator driven through its methods                  *)
(***************************************************************************)
PlayerIdle ==
  /\ currentPos = 0 /\ currentRow = 0 /\ sampleCounter = 0
  /\ samplesPerRow = 0 /\ done = FALSE

\* no envelope is driven on its own
NoEnvLog ==
  [op |-> "none", sinceTrigger |-> -1, sinceRelease |-> -1,
   stageAtRelease |-> "Off", levelAtRelease |-> R0, levelBefore |-> R0]

\* no audio playback and no WAV rendering is under way
\* created: NewAudioPlayback returned a playback; opened: the attempts made
\* to open the output; error: what NewVTMPlayer returned; playing: Play()
\* has handed the reader to the output; closed: the done channel is closed;
\* reader: where the worker is inside Read ("idle" between calls, "checked"
\* past the select, "fill" in the loop); lenp, p: the buffer's length in
\* bytes and its content, one entry per 4 bytes; i, numSamples: the loop's variables; n, err: what the last Read
\* returned; made: the values Next() returned to the Read in progress;
\* stopAt: the i at which Stop() came during it, or -1; polled: the value
\* the controller's last IsDone() returned; shared: the Player fields the
\* controller has accessed
NoPlayback ==
  [created |-> FALSE, opened |-> 0, error |-> "none", playing |-> FALSE,
   closed |-> FALSE, reader |-> "idle", reads |-> 0, lenp |-> 0,
   p |-> << >>, i |-> 0,
   numSamples |-> 0, n |-> 0, err |-> "none", made |-> << >>,
   stopAt |-> -1, op |-> "none", polled |-> FALSE, shared |-> {}]

\* writer: "none" before NewWAVWriter, "open", "closed"; numSamples:
\* WAVWriter.numSamples; fileSize, dataSize: the uint32 fields at offsets 4
\* and 40 of the file; data: the frames after the header, a pair of int16
\* each; nexts: the Next() calls RenderToWAV has made; err: what it returned
NoWav ==
  [writer |-> "none", numSamples |-> 0, fileSize |-> << >>, dataSize |-> << >>,
   data |-> << >>, nexts |-> 0, op |-> "none", err |-> "none"]

DriversIdle == playback = NoPlayback /\ wav = NoWav

EnvelopeIdle ==
  /\ envelope = NewEnvelope(R0, R0, R0, R0, 0)
  /\ envLog = NoEnvLog
  /\ DriversIdle

InitAlloc ==
  /\ sampleRate \in Rates
  /\ \E inst \in AllocInstruments :
       /\ module = [Title |-> "", Tempo |-> 120, Patterns |-> << >>,
                    Sequence |-> << >>, Instruments |-> <<inst>>]
       /\ VoiceAllocators = <<NewVoiceAllocator(inst, sampleRate, maxPolyphony)>>
  /\ PlayerIdle
  /\ pc = "alloc"
  /\ calls = 0
  /\ ret = R0
  /\ hist = << >>
  /\ resets = 0
  /\ stolen = {}
  /\ used = 0
  /\ ev = NoEvent
  /\ EnvelopeIdle

AllocFrame ==
  UNCHANGED <<module, sampleRate, currentPos, currentRow, sampleCounter,
              samplesPerRow, done, pc, resets, envelope, envLog, playback, wav>>

NoteOn(note, velocity) ==
  /\ calls < MaxCalls
  /\ calls' = calls + 1
  /\ VoiceAllocators' =
       [VoiceAllocators EXCEPT ![1] = VoiceAllocator_NoteOn(@, note, velocity)]
  /\ hist' = HistAdd(hist, note)
  /\ used' = UseNote(used, note)
  /\ stolen' =
       LET va == VoiceAllocators[1] IN
       IF /\ note \notin DOMAIN va.noteMap
          /\ ActiveVoices(va) = DOMAIN va.voices
          /\ va.activeNotes # << >>
       THEN (stolen \cup {va.activeNotes[1]}) \ {note}
       ELSE stolen \ {note}
  /\ ev' = AllocEvent("NoteOn", note, velocity, VoiceAllocators[1])
  /\ UNCHANGED ret
  /\ AllocFrame

NoteOff(note) ==
  /\ calls < MaxCalls
  /\ calls' = calls + 1
  /\ VoiceAllocators' =
       [VoiceAllocators EXCEPT ![1] = VoiceAllocator_NoteOff(@, note)]
  /\ hist' = Poisoned
  /\ used' = UseNote(used, note)
  /\ ev' = AllocEvent("NoteOff", note, R0, VoiceAllocators[1])
  /\ UNCHANGED <<ret, stolen>>
  /\ AllocFrame

AllNotesOff ==
  /\ calls < MaxCalls
  /\ calls' = calls + 1
  /\ VoiceAllocators' =
       [VoiceAllocators EXCEPT ![1] = VoiceAllocator_AllNotesOff(@)]
  /\ hist' = Poisoned
  /\ ev' = [AllocEvent("AllNotesOff", -1, R0, VoiceAllocators[1])
              EXCEPT !.tail = 0]
  /\ UNCHANGED <<ret, stolen, used>>
  /\ AllocFrame

AllocatorNext ==
  /\ calls < MaxCalls
  /\ LET r == VoiceAllocator_Next(VoiceAllocators[1]) IN
       /\ VoiceAllocators' = [VoiceAllocators EXCEPT ![1] = r.va]
       /\ ret' = r.sample
  /\ calls' = calls + 1
  /\ ev' = [AllocEvent("Next", -1, R0, VoiceAllocators[1])
              EXCEPT !.tail = IF ev.tail >= 0 THEN ev.tail + 1 ELSE -1]
  /\ UNCHANGED <<hist, stolen, used>>
  /\ AllocFrame

NextAlloc ==
  \/ \E note \in Known(used), velocity \in Velocities : NoteOn(note, velocity)
  \/ \E note \in Known(used) : NoteOff(note)
  \/ AllNotesOff
  \/ AllocatorNext

SpecAlloc == InitAlloc /\ [][NextAlloc]_vars

(***************************************************************************)
(* The same allocator calls on a pool of either kind of voice: the         *)
(* traditional instrument above, or the FM piano preset at 10 Hz, where    *)
(* the operators of one voice have releases of different lengths (2, 1, 1  *)
(* and 0 samples) and every operator phase stays at a whole number of half *)
(* turns                                                                   *)
(***************************************************************************)
FMRates == {10}

PianoInst ==
  [Name |-> "Piano", WaveType |-> "Sine", Attack |-> R0, Decay |-> R0,
   Sustain |-> R0, Release |-> R0, IsFM |-> TRUE, FMPreset |-> "PIANO"]

VoiceInstruments == {ShortInst, PianoInst}

InitVoice ==
  /\ \E inst \in VoiceInstruments :
       /\ sampleRate \in IF inst.IsFM THEN FMRates ELSE Rates
       /\ module = [Title |-> "", Tempo |-> 120, Patterns |-> << >>,
                    Sequence |-> << >>, Instruments |-> <<inst>>]
       /\ VoiceAllocators = <<NewVoiceAllocator(inst, sampleRate, maxPolyphony)>>
  /\ PlayerIdle
  /\ pc = "alloc"
  /\ calls = 0
  /\ ret = R0
  /\ hist = << >>
  /\ resets = 0
  /\ stolen = {}
  /\ used = 0
  /\ ev = NoEvent
  /\ EnvelopeIdle

SpecVoice == InitVoice /\ [][NextAlloc]_vars

(***************************************************************************)
(* An Envelope driven on its own: Trigger(), Release(), Next()             *)
(***************************************************************************)
MaxEnvCalls == 9    \* calls made on the envelope

\* stage lengths of 0, 1, 2 and 3 samples at 1760 Hz (0, 1.056, 2.112, 3.168)
EnvTimes == {R0, Rat(6, 10000), Rat(12, 10000), Rat(18, 10000)}
EnvSustains == {R0, Rat(1, 2), R1, Rat(3, 2)}

InitEnv ==
  /\ sampleRate \in Rates
  /\ module = [Title |-> "", Tempo |-> 120, Patterns |-> << >>,
               Sequence |-> << >>, Instruments |-> << >>]
  /\ VoiceAllocators = << >>
  /\ PlayerIdle
  /\ pc = "env"
  /\ calls = 0
  /\ ret = R0
  /\ hist = << >>
  /\ resets = 0
  /\ stolen = {}
  /\ used = 0
  /\ ev = NoEvent
  /\ \E attack \in EnvTimes, decay \in EnvTimes, sustain \in EnvSustains,
        release \in EnvTimes :
       envelope = NewEnvelope(attack, decay, sustain, release, sampleRate)
  /\ envLog = [NoEnvLog EXCEPT !.op = "new"]
  /\ DriversIdle

EnvFrame ==
  UNCHANGED <<module, sampleRate, VoiceAllocators, currentPos, currentRow,
              sampleCounter, samplesPerRow, done, pc, hist, resets, stolen,
              used, ev, playback, wav>>

Trigger ==
  /\ pc = "env"
  /\ calls < MaxEnvCalls
  /\ calls' = calls + 1
  /\ envelope' = Envelope_Trigger(envelope)
  /\ envLog' = [envLog EXCEPT !.op = "Trigger", !.sinceTrigger = 0,
                              !.sinceRelease = -1,
                              !.levelBefore = envelope.level]
  /\ UNCHANGED ret
  /\ EnvFrame

Release ==
  /\ pc = "env"
  /\ calls < MaxEnvCalls
  /\ calls' = calls + 1
  /\ envelope' = Envelope_Release(envelope)
  /\ envLog' = [envLog EXCEPT !.op = "Release", !.sinceTrigger = -1,
                              !.sinceRelease =
                                 IF Envelope_IsActive(envelope) THEN 0 ELSE -1,
                              !.stageAtRelease = envelope.stage,
                              !.levelAtRelease = envelope.level,
                              !.levelBefore = envelope.level]
  /\ UNCHANGED ret
  /\ EnvFrame

EnvelopeNext ==
  /\ pc = "env"
  /\ calls < MaxEnvCalls
  /\ calls' = calls + 1
  /\ envelope' = Envelope_Next(envelope)
  /\ ret' = Envelope_Next(envelope).level
  /\ envLog' = [envLog EXCEPT !.op = "Next",
                              !.sinceTrigger = IF @ >= 0 THEN @ + 1 ELSE @,
                              !.sinceRelease = IF @ >= 0 THEN @ + 1 ELSE @,
                              !.levelBefore = envelope.level]
  /\ EnvFrame

NextEnv ==
  \/ Trigger
  \/ Release
  \/ EnvelopeNext

SpecEnv == InitEnv /\ [][NextEnv]_vars

(***************************************************************************)
(* Modules given to NewPlayer                                              *)
(***************************************************************************)
MaxSamples == 16    \* Next() calls made on a player
MaxResets == 1      \* Reset() calls made on a player

Ev(note) == [Note |-> note, Volume |-> R1, Chord |-> << >>]
EvRest == Ev(-1)
EvOff == Ev(-2)
EvChord(note, chord) == [Note |-> note, Volume |-> R1, Chord |-> chord]
EvVol(note, volume) == [Note |-> note, Volume |-> volume, Chord |-> << >>]

Mod(title, patterns, sequence, instruments) ==
  [Title |-> title, Tempo |-> 120, Patterns |-> patterns,
   Sequence |-> sequence, Instruments |-> instruments]

\* a note held over rests, a chord, a note-off row, a second pattern
SongModule ==
  Mod("song",
      << [Rows |-> 3,
          Channels |-> << <<Ev(57), EvRest, EvRest>>,
                          <<EvRest, EvChord(69, <<45, -1, 81>>), EvOff>> >>],
         [Rows |-> 2,
          Channels |-> << <<EvOff, EvVol(69, Rat(1, 2))>>,
                          <<Ev(57), EvRest>> >>] >>,
      <<0, 1>>, <<ShortInst, ShortInst>>)

\* five pitches on one channel: the fifth steals; then a rest row
StealModule ==
  Mod("steal",
      << [Rows |-> 4,
          Channels |-> << <<EvChord(57, <<69, 45, 81>>), EvRest,
                            EvVol(33, R0), EvRest>> >>] >>,
      <<0>>, <<ShortInst>>)

\* a sequence entry past the patterns, a channel shorter than Rows, a
\* pattern of no rows, nine channels, no instrument
OddModule ==
  Mod("odd",
      << [Rows |-> 2,
          Channels |-> << <<Ev(57)>>, <<EvRest, Ev(69)>>, << >>, << >>, << >>,
                          << >>, << >>, << >>, <<Ev(45), Ev(45)>> >>],
         [Rows |-> 0, Channels |-> << <<Ev(81)>> >>] >>,
      <<1, 0>>, << >>)

PastModule ==
  Mod("past",
      << [Rows |-> 1, Channels |-> << <<Ev(57)>> >>] >>,
      <<0, 3, 0>>, <<ZeroInst>>)

EmptyModule == Mod("empty", << >>, << >>, << >>)

NegativeModule ==
  Mod("negative",
      << [Rows |-> 1, Channels |-> << <<Ev(57)>> >>] >>,
      <<0, -1>>, <<ZeroInst>>)

\* the module of the specification's example, played at 44100 Hz with the
\* default instrument: 4 rows on 1 channel at tempo 120
ExampleModule ==
  Mod("example",
      << [Rows |-> 4,
          Channels |-> << <<Ev(57), EvRest, EvRest, EvOff>> >>] >>,
      <<0>>, << >>)
DefaultSampleRate == 44100
ExampleSamples == 4 * 5512 + 2

Modules ==
  {SongModule, StealModule, OddModule, PastModule, EmptyModule, NegativeModule}

\* at 1760 Hz: 3, 2 (2.93 truncated), 2, 1, 0 (0.5 truncated) and -2 (-2.93
\* truncated) samples per row
Tempos == {8800, 9000, 13200, 26400, 52800, -9000}

(***************************************************************************)
(* The player: construction, Next(), Reset()                               *)
(***************************************************************************)
\* the pitch the player reads for allocator i (channel i-1) at the cursor,
\* -3 when it reads none there
NoteRead(m, pos, row, i) ==
  IF /\ pos < Len(m.Sequence)
     /\ m.Sequence[pos + 1] >= 0
     /\ m.Sequence[pos + 1] < Len(m.Patterns)
  THEN LET channels == m.Patterns[m.Sequence[pos + 1] + 1].Channels IN
       IF i <= Len(channels) /\ i <= numChannels /\ row < Len(channels[i])
       THEN channels[i][row + 1].Note
       ELSE -3
  ELSE -3

HeldOverRest ==
  \E i \in DOMAIN VoiceAllocators :
    /\ NoteRead(module, currentPos, currentRow, i) = -1
    /\ VoiceAllocators[i].activeNotes # << >>
    /\ \E k \in DOMAIN VoiceAllocators[i].voices :
         VoiceAllocators[i].voices[k].envelope.stage = "Sustain"

\* the Next() calls the driver makes on the player
Budget == IF module.Title = "example" THEN ExampleSamples ELSE MaxSamples

Unconstructed ==
  /\ VoiceAllocators = << >>
  /\ PlayerIdle
  /\ pc = "new"
  /\ calls = 0
  /\ ret = R0
  /\ hist = << >>
  /\ resets = 0
  /\ stolen = {}
  /\ used = 0
  /\ ev = NoEvent
  /\ EnvelopeIdle

Init ==
  /\ sampleRate \in Rates
  /\ \E m \in Modules, t \in Tempos : module = [m EXCEPT !.Tempo = t]
  /\ Unconstructed

InitRun ==
  /\ \/ /\ sampleRate \in Rates
        /\ \E m \in Modules, t \in Tempos : module = [m EXCEPT !.Tempo = t]
     \/ /\ sampleRate = DefaultSampleRate
        /\ module = ExampleModule
  /\ Unconstructed

NewPlayer ==
  /\ pc = "new"
  /\ pc' = "ready"
  /\ VoiceAllocators' = NewPlayerAllocators(module, sampleRate)
  /\ samplesPerRow' = SamplesPerRow(module.Tempo, sampleRate)
  /\ currentPos' = 0
  /\ currentRow' = 0
  /\ sampleCounter' = 0
  /\ done' = FALSE
  /\ ev' = Event("NewPlayer", -1, R0)
  /\ UNCHANGED <<module, sampleRate, calls, ret, hist, resets, stolen, used,
                 envelope, envLog, playback, wav>>

\* variant: a done player still mixes its allocators
Player_NextDone_StillMixes ==
  /\ pc = "ready"
  /\ calls < Budget
  /\ done
  /\ ret' = RDiv(MixSum(VoiceAllocators, Len(VoiceAllocators)),
                 RInt(Len(VoiceAllocators)))
  /\ VoiceAllocators' = [i \in DOMAIN VoiceAllocators |->
                          VoiceAllocator_Next(VoiceAllocators[i]).va]
  /\ calls' = calls + 1
  /\ ev' = Event("Next", -1, R0)
  /\ UNCHANGED <<module, sampleRate, currentPos, currentRow,
                 sampleCounter, samplesPerRow, done, pc, hist, resets, stolen, used,
                 envelope, envLog, playback, wav>>

\* Player.Next() while done: returns 0.0
Player_NextDone ==
  /\ pc = "ready"
  /\ calls < Budget
  /\ done
  /\ ret' = R0
  /\ calls' = calls + 1
  /\ ev' = Event("Next", -1, R0)
  /\ UNCHANGED <<module, sampleRate, VoiceAllocators, currentPos, currentRow,
                 sampleCounter, samplesPerRow, done, pc, hist, resets, stolen, used,
                 envelope, envLog, playback, wav>>

\* Player.Next() panics in processRow: index out of range
Player_NextPanic ==
  /\ pc = "ready"
  /\ calls < Budget
  /\ ~done
  /\ sampleCounter = 0
  /\ RowPanics(module, currentPos)
  /\ pc' = "panic"
  /\ calls' = calls + 1
  /\ ev' = [Event("Next", -1, R0) EXCEPT !.pos = currentPos, !.row = currentRow]
  /\ UNCHANGED <<module, sampleRate, VoiceAllocators, currentPos, currentRow,
                 sampleCounter, samplesPerRow, done, ret, hist, resets, stolen, used,
                 envelope, envLog, playback, wav>>

Player_Next ==
  /\ pc = "ready"
  /\ calls < Budget
  /\ ~done
  /\ ~(sampleCounter = 0 /\ RowPanics(module, currentPos))
  /\ LET rowed == IF sampleCounter = 0
                  THEN processRow(VoiceAllocators, module, currentPos, currentRow)
                  ELSE VoiceAllocators
         sample == RDiv(MixSum(rowed, Len(rowed)), RInt(Len(rowed)))
         cur == Advance(module, sampleCounter, samplesPerRow, currentRow,
                        currentPos, done)
     IN  /\ VoiceAllocators' =
               [i \in DOMAIN rowed |-> VoiceAllocator_Next(rowed[i]).va]
         /\ ret' = sample
         /\ sampleCounter' = cur.counter
         /\ currentRow' = cur.row
         /\ currentPos' = cur.pos
         /\ done' = cur.done
  /\ calls' = calls + 1
  /\ ev' = IF sampleCounter = 0
           THEN [Event("Next", -1, R0) EXCEPT !.pos = currentPos,
                                              !.row = currentRow,
                                              !.held = HeldOverRest]
           ELSE Event("Next", -1, R0)
  /\ UNCHANGED <<module, sampleRate, samplesPerRow, pc, hist, resets, stolen, used,
                 envelope, envLog, playback, wav>>

\* variant: Reset() also silences every channel
Reset_Silences ==
  /\ pc = "ready"
  /\ resets < MaxResets
  /\ resets' = resets + 1
  /\ currentPos' = 0
  /\ currentRow' = 0
  /\ sampleCounter' = 0
  /\ done' = FALSE
  /\ calls' = 0
  /\ VoiceAllocators' = [i \in DOMAIN VoiceAllocators |->
                          VoiceAllocator_AllNotesOff(VoiceAllocators[i])]
  /\ ev' = [Event("Reset", -1, R0) EXCEPT !.pos = currentPos,
                                          !.row = currentRow]
  /\ UNCHANGED <<module, sampleRate, samplesPerRow, pc, ret,
                 hist, stolen, used,
                 envelope, envLog, playback, wav>>

\* Player.Reset(); the event keeps the cursor the call found
Reset ==
  /\ pc = "ready"
  /\ resets < MaxResets
  /\ resets' = resets + 1
  /\ currentPos' = 0
  /\ currentRow' = 0
  /\ sampleCounter' = 0
  /\ done' = FALSE
  /\ calls' = 0
  /\ ev' = [Event("Reset", -1, R0) EXCEPT !.pos = currentPos,
                                          !.row = currentRow]
  /\ UNCHANGED <<module, sampleRate, VoiceAllocators, samplesPerRow, pc, ret,
                 hist, stolen, used,
                 envelope, envLog, playback, wav>>

Next ==
  \/ NewPlayer
  \/ Player_NextDone
  \/ Player_NextPanic
  \/ Player_Next
  \/ Reset

Spec == Init /\ [][Next]_vars

\* uninterrupted playback from construction, the example included
NextRun ==
  \/ NewPlayer
  \/ Player_NextDone
  \/ Player_NextPanic
  \/ Player_Next

SpecRun == InitRun /\ [][NextRun]_vars

(***************************************************************************)
(* audio.Player as one value, for the callers that loop over Next():       *)
(* Stream, audioReader.Read, RenderToWAV                                   *)
(***************************************************************************)
ThePlayer ==
  [module |-> module, VoiceAllocators |-> VoiceAllocators,
   currentPos |-> currentPos, currentRow |-> currentRow,
   sampleCounter |-> sampleCounter, samplesPerRow |-> samplesPerRow,
   done |-> done]

\* Player.Next() on p: the player afterwards, the value returned, and
\* whether the call panicked in processRow instead
Player_NextOf(p) ==
  IF p.done THEN [player |-> p, sample |-> R0, panics |-> FALSE]
  ELSE IF p.sampleCounter = 0 /\ RowPanics(p.module, p.currentPos)
  THEN [player |-> p, sample |-> R0, panics |-> TRUE]
  ELSE LET rowed == IF p.sampleCounter = 0
                    THEN processRow(p.VoiceAllocators, p.module,
                                    p.currentPos, p.currentRow)
                    ELSE p.VoiceAllocators
           sample == RDiv(MixSum(rowed, Len(rowed)), RInt(Len(rowed)))
           cur == Advance(p.module, p.sampleCounter, p.samplesPerRow,
                          p.currentRow, p.currentPos, p.done)
       IN  [player |->
              [p EXCEPT !.VoiceAllocators =
                           [i \in DOMAIN rowed |-> VoiceAllocator_Next(rowed[i]).va],
                        !.sampleCounter = cur.counter,
                        !.currentRow = cur.row,
                        !.currentPos = cur.pos,
                        !.done = cur.done],
            sample |-> sample, panics |-> FALSE]

\* the player's variables take the fields of p
PlayerBecomes(p) ==
  /\ VoiceAllocators' = p.VoiceAllocators
  /\ currentPos' = p.currentPos
  /\ currentRow' = p.currentRow
  /\ sampleCounter' = p.sampleCounter
  /\ done' = p.done

\* what a buffer handed to Stream holds beforehand: frames no call writes,
\* with channels that differ
StaleFrame == <<RInt(-2), RInt(2)>>
StaleFrames(len) == [k \in 1..len |-> StaleFrame]

\* variant: the frame is filled before the player is asked whether it is
\* done
RECURSIVE Player_StreamOf_ChecksAfter(_, _, _, _)
Player_StreamOf_ChecksAfter(p, len, i, samples) ==
  IF i = len
  THEN [player |-> p, samples |-> samples, n |-> len, ok |-> TRUE,
        panics |-> FALSE]
  ELSE LET r == CHOOSE r \in {Player_NextOf(p)} : TRUE IN
       IF r.panics
       THEN [player |-> p, samples |-> samples, n |-> i, ok |-> FALSE,
             panics |-> TRUE]
       ELSE IF r.player.done
       THEN [player |-> r.player,
             samples |-> [samples EXCEPT ![i + 1] = <<r.sample, r.sample>>],
             n |-> i, ok |-> FALSE, panics |-> FALSE]
       ELSE Player_StreamOf_ChecksAfter(r.player, len, i + 1,
              [samples EXCEPT ![i + 1] = <<r.sample, r.sample>>])

\* variant: only the left channel of a frame is written
RECURSIVE Player_StreamOf_LeftOnly(_, _, _, _)
Player_StreamOf_LeftOnly(p, len, i, samples) ==
  IF i = len
  THEN [player |-> p, samples |-> samples, n |-> len, ok |-> TRUE,
        panics |-> FALSE]
  ELSE IF p.done
  THEN [player |-> p, samples |-> samples, n |-> i, ok |-> FALSE,
        panics |-> FALSE]
  ELSE LET r == CHOOSE r \in {Player_NextOf(p)} : TRUE IN
       IF r.panics
       THEN [player |-> p, samples |-> samples, n |-> i, ok |-> FALSE,
             panics |-> TRUE]
       ELSE Player_StreamOf_LeftOnly(r.player, len, i + 1,
              [samples EXCEPT ![i + 1][1] = r.sample])

\* Player.Stream(samples) on p from index i of a buffer of len frames: the
\* player afterwards, the buffer afterwards, the values returned, and
\* whether a Next() panicked
RECURSIVE Player_StreamOf(_, _, _, _)
Player_StreamOf(p, len, i, samples) ==
  IF i = len
  THEN [player |-> p, samples |-> samples, n |-> len, ok |-> TRUE,
        panics |-> FALSE]
  ELSE IF p.done
  THEN [player |-> p, samples |-> samples, n |-> i, ok |-> FALSE,
        panics |-> FALSE]
  ELSE LET r == CHOOSE r \in {Player_NextOf(p)} : TRUE IN
       IF r.panics
       THEN [player |-> p, samples |-> samples, n |-> i, ok |-> FALSE,
             panics |-> TRUE]
       ELSE Player_StreamOf(r.player, len, i + 1,
              [samples EXCEPT ![i + 1] = <<r.sample, r.sample>>])

\* len(samples) of a Stream call
StreamLens == {0, 3}

\* Player.Stream(samples) with len(samples) = len; ret is what its last
\* Next() returned, the event holds the values Stream returns and the buffer
\* as the call leaves it
Stream(len) ==
  /\ pc = "ready"
  /\ calls + len <= Budget
  /\ \E r \in {Player_StreamOf(ThePlayer, len, 0, StaleFrames(len))} :
       /\ PlayerBecomes(r.player)
       /\ pc' = IF r.panics THEN "panic" ELSE pc
       /\ calls' = calls + r.n + (IF r.panics THEN 1 ELSE 0)
       /\ ret' = IF r.n = 0 THEN ret ELSE r.samples[r.n][1]
       /\ ev' = [Event("Stream", -1, R0) EXCEPT !.pos = currentPos,
                                                !.row = currentRow,
                                                !.n = r.n, !.ok = r.ok,
                                                !.samples = r.samples]
  /\ UNCHANGED <<module, sampleRate, samplesPerRow, hist, resets, stolen,
                 used, envelope, envLog, playback, wav>>

NextStream ==
  \/ Next
  \/ \E len \in StreamLens : Stream(len)

SpecStream == Init /\ [][NextStream]_vars

\* Next() called for as long as the driver's budget lasts, on modules whose
\* sequence has no negative entry
InitFair ==
  /\ sampleRate \in Rates
  /\ \E m \in Modules \ {NegativeModule}, t \in Tempos :
       module = [m EXCEPT !.Tempo = t]
  /\ Unconstructed

NextFair ==
  \/ NewPlayer
  \/ Player_NextDone
  \/ Player_Next

\* ENABLED <<Player_Next>>_vars, written out
Player_NextEnabled ==
  /\ pc = "ready" /\ calls < Budget /\ ~done
  /\ ~(sampleCounter = 0 /\ RowPanics(module, currentPos))

\* the loop that calls Next() goes on: weak fairness of each action, that
\* of Player_Next with its enabling condition written out
SpecFair ==
  /\ InitFair /\ [][NextFair]_vars
  /\ WF_vars(NewPlayer) /\ WF_vars(Player_NextDone)
  /\ ([]<>(~Player_NextEnabled) \/ []<><<Player_Next>>_vars)

(***************************************************************************)
(* Real-time playback: vtm.NewVTMPlayer, audio.AudioPlayback and the       *)
(* audioReader the output's worker pulls blocks from, next to the          *)
(* controlling context (Stop(), IsDone()).  A float32 is [m, e], the value *)
(* m * 2^e with 2^23 <= |m| < 2^24, or [0, 0]; a 4-byte group of the       *)
(* buffer is the float32 it encodes.                                       *)
(***************************************************************************)
MaxReads == 3    \* Read calls the output makes

\* len(p) of a Read: one frame, or two frames and four bytes more
BufferBytes == {8, 20}

PlayRates == {22050, DefaultSampleRate, 48000}
compatibleSampleRates == {DefaultSampleRate, 48000}

\* at 44100 and 48000 Hz: 5512 and 6000, 2, 1 and 0 samples per row
PlayTempos == {120, 330750, 661500, 1000000}

\* a * 2^k = m + r/d with 0 <= r < d: double until m has 24 bits
RECURSIVE F32Scale(_, _, _, _)
F32Scale(m, r, d, k) ==
  IF m >= Pow2(23) THEN [m |-> m, r |-> r, k |-> k]
  ELSE F32Scale(2 * m + (2 * r) \div d, (2 * r) % d, d, k + 1)

\* float32(x) for 0 <= |x| < 2^24: round to nearest, ties to even
Float32(x) ==
  IF x.n = 0 THEN [m |-> 0, e |-> 0]
  ELSE LET a == Abs(x.n)
           s == F32Scale(a \div x.d, a % x.d, x.d, 0)
           up == 2 * s.r > x.d \/ (2 * s.r = x.d /\ s.m % 2 = 1)
           m1 == IF up THEN s.m + 1 ELSE s.m
           sign == IF x.n < 0 THEN -1 ELSE 1
       IN  IF m1 = Pow2(24) THEN [m |-> sign * Pow2(23), e |-> 1 - s.k]
           ELSE [m |-> sign * m1, e |-> -s.k]

\* what a buffer holds before Read writes it
Stale == [m |-> 1, e |-> 0]

InitPlay ==
  /\ sampleRate \in PlayRates
  /\ \E m \in Modules, t \in PlayTempos : module = [m EXCEPT !.Tempo = t]
  /\ Unconstructed

PlayFrame ==
  UNCHANGED <<module, sampleRate, calls, ret, hist, resets, stolen, used, ev,
              envelope, envLog, wav>>

PlayerUnchanged ==
  UNCHANGED <<VoiceAllocators, currentPos, currentRow, sampleCounter,
              samplesPerRow, done>>

\* variant: the output is opened before the sample rate is looked at
NewVTMPlayer_OpensFirst(loads, opens) ==
  /\ pc = "new"
  /\ IF ~loads
     THEN /\ pc' = "failed"
          /\ playback' = [playback EXCEPT !.error = "load", !.op = "NewVTMPlayer"]
          /\ PlayerUnchanged
     ELSE IF ~opens
     THEN /\ pc' = "failed"
          /\ playback' = [playback EXCEPT !.error = "transport", !.opened = 1,
                                          !.op = "NewVTMPlayer"]
          /\ PlayerUnchanged
     ELSE IF sampleRate \notin compatibleSampleRates
     THEN /\ pc' = "failed"
          /\ playback' = [playback EXCEPT !.error = "rate", !.opened = 1,
                                          !.op = "NewVTMPlayer"]
          /\ PlayerUnchanged
     ELSE /\ pc' = "ready"
          /\ playback' = [playback EXCEPT !.created = TRUE, !.opened = 1,
                                          !.op = "NewVTMPlayer"]
          /\ VoiceAllocators' = NewPlayerAllocators(module, sampleRate)
          /\ samplesPerRow' = SamplesPerRow(module.Tempo, sampleRate)
          /\ currentPos' = 0 /\ currentRow' = 0 /\ sampleCounter' = 0
          /\ done' = FALSE
  /\ PlayFrame

\* NewVTMPlayer(filename, sampleRate): loads says whether LoadVTM succeeds on
\* the file, opens whether oto.NewContext does
NewVTMPlayer(loads, opens) ==
  /\ pc = "new"
  /\ IF ~loads
     THEN /\ pc' = "failed"
          /\ playback' = [playback EXCEPT !.error = "load", !.op = "NewVTMPlayer"]
          /\ PlayerUnchanged
     ELSE IF sampleRate \notin compatibleSampleRates
     THEN /\ pc' = "failed"
          /\ playback' = [playback EXCEPT !.error = "rate", !.op = "NewVTMPlayer"]
          /\ PlayerUnchanged
     ELSE IF ~opens
     THEN /\ pc' = "failed"
          /\ playback' = [playback EXCEPT !.error = "transport", !.opened = 1,
                                          !.op = "NewVTMPlayer"]
          /\ PlayerUnchanged
     ELSE /\ pc' = "ready"
          /\ playback' = [playback EXCEPT !.created = TRUE, !.opened = 1,
                                          !.op = "NewVTMPlayer"]
          /\ VoiceAllocators' = NewPlayerAllocators(module, sampleRate)
          /\ samplesPerRow' = SamplesPerRow(module.Tempo, sampleRate)
          /\ currentPos' = 0 /\ currentRow' = 0 /\ sampleCounter' = 0
          /\ done' = FALSE
  /\ PlayFrame

\* AudioPlayback.Play(): the output gets the reader and starts to pull
Play ==
  /\ pc = "ready" /\ ~playback.playing
  /\ playback' = [playback EXCEPT !.playing = TRUE, !.op = "Play"]
  /\ UNCHANGED pc
  /\ PlayerUnchanged
  /\ PlayFrame

\* AudioPlayback.Stop(): close(ap.done); closing a closed channel panics
Stop ==
  /\ pc = "ready"
  /\ IF playback.closed
     THEN /\ pc' = "panic"
          /\ playback' = [playback EXCEPT !.op = "Stop"]
     ELSE /\ UNCHANGED pc
          /\ playback' = [playback EXCEPT
                            !.closed = TRUE, !.op = "Stop",
                            !.stopAt = IF playback.reader = "idle" THEN -1
                                       ELSE playback.i]
  /\ PlayerUnchanged
  /\ PlayFrame

\* AudioPlayback.IsDone() from the controlling context: Player.done read
\* with no synchronisation while the worker may write it, so the value is
\* the current one or the one before the worker's writes
IsDone ==
  /\ pc = "ready"
  /\ \E b \in {FALSE, done} :
       playback' = [playback EXCEPT !.polled = b, !.op = "IsDone",
                                    !.shared = @ \cup {"done"}]
  /\ UNCHANGED pc
  /\ PlayerUnchanged
  /\ PlayFrame

\* audioReader.Read(p), up to the select on the done channel
ReadBegin(lenp) ==
  /\ pc = "ready" /\ playback.playing
  /\ playback.reader = "idle"
  /\ playback.reads < MaxReads
  /\ playback' =
       IF playback.closed
       THEN [playback EXCEPT !.reads = @ + 1, !.op = "Read",
                             !.lenp = lenp,
                             !.p = [k \in 1..(lenp \div 4) |-> Stale],
                             !.i = 0, !.numSamples = 0, !.made = << >>,
                             !.stopAt = -1, !.n = 0, !.err = "EOF"]
       ELSE [playback EXCEPT !.reads = @ + 1, !.op = "ReadBegin",
                             !.lenp = lenp,
                             !.p = [k \in 1..(lenp \div 4) |-> Stale],
                             !.i = 0, !.numSamples = 0, !.made = << >>,
                             !.stopAt = -1, !.n = 0, !.err = "none",
                             !.reader = "checked"]
  /\ UNCHANGED pc
  /\ PlayerUnchanged
  /\ PlayFrame

\* Read: if ar.player.IsDone() return 0, io.EOF; else numSamples is set
ReadIsDone ==
  /\ pc = "ready" /\ playback.reader = "checked"
  /\ playback' =
       IF done
       THEN [playback EXCEPT !.reader = "idle", !.op = "Read",
                             !.n = 0, !.err = "EOF"]
       ELSE [playback EXCEPT !.reader = "fill", !.op = "ReadIsDone",
                             !.numSamples = (playback.lenp \div 4) \div 2]
  /\ UNCHANGED pc
  /\ PlayerUnchanged
  /\ PlayFrame

\* variant: the loop looks at the done channel before every frame
ReadFrame_ChecksStop ==
  /\ pc = "ready" /\ playback.reader = "fill"
  /\ playback.i < playback.numSamples
  /\ IF playback.closed
     THEN /\ playback' = [playback EXCEPT !.reader = "idle", !.op = "Read",
                                          !.n = playback.i * 8, !.err = "nil"]
          /\ UNCHANGED pc
          /\ PlayerUnchanged
     ELSE LET r == Player_NextOf(ThePlayer)
              word == Float32(r.sample)
              offset == playback.i * 2
          IN  IF r.panics
              THEN /\ pc' = "panic"
                   /\ playback' = [playback EXCEPT !.op = "ReadFrame"]
                   /\ PlayerUnchanged
              ELSE /\ UNCHANGED <<pc, samplesPerRow>>
                   /\ PlayerBecomes(r.player)
                   /\ playback' = [playback EXCEPT
                                     !.op = "ReadFrame",
                                     !.p[offset + 1] = word,
                                     !.p[offset + 2] = word,
                                     !.i = @ + 1,
                                     !.made = Append(@, r.sample)]
  /\ PlayFrame

\* Read: one turn of the loop: Next(), float32, the frame's two channels
ReadFrame ==
  /\ pc = "ready" /\ playback.reader = "fill"
  /\ playback.i < playback.numSamples
  /\ LET r == Player_NextOf(ThePlayer)
         word == Float32(r.sample)
         offset == playback.i * 2
     IN  IF r.panics
         THEN /\ pc' = "panic"
              /\ playback' = [playback EXCEPT !.op = "ReadFrame"]
              /\ PlayerUnchanged
         ELSE /\ UNCHANGED <<pc, samplesPerRow>>
              /\ PlayerBecomes(r.player)
              /\ playback' = [playback EXCEPT
                                !.op = "ReadFrame",
                                !.p[offset + 1] = word,
                                !.p[offset + 2] = word,
                                !.i = @ + 1,
                                !.made = Append(@, r.sample)]
  /\ PlayFrame

\* Read: return numSamples * 8, nil
ReadReturn ==
  /\ pc = "ready" /\ playback.reader = "fill"
  /\ playback.i >= playback.numSamples
  /\ playback' = [playback EXCEPT !.reader = "idle", !.op = "Read",
                                  !.n = playback.numSamples * 8, !.err = "nil"]
  /\ UNCHANGED pc
  /\ PlayerUnchanged
  /\ PlayFrame

NextPlay ==
  \/ \E loads \in BOOLEAN, opens \in BOOLEAN : NewVTMPlayer(loads, opens)
  \/ Play
  \/ Stop
  \/ IsDone
  \/ \E lenp \in BufferBytes : ReadBegin(lenp)
  \/ ReadIsDone
  \/ ReadFrame
  \/ ReadReturn

SpecPlay == InitPlay /\ [][NextPlay]_vars

(***************************************************************************)
(* audio.WAVWriter and audio.RenderToWAV.  A uint32 field of the header is *)
(* its two little-endian 16-bit halves <<lo, hi>>.                         *)
(***************************************************************************)
\* uint32(v) as <<low half, high half>>, for 0 <= v < 2^31
Uint32(v) == <<v % Pow2(16), (v \div Pow2(16)) % Pow2(16)>>

\* int16(x * 32767.0) for -1 <= x <= 1: truncation toward zero
Int16Sample(x) == TruncToInt(RMul(x, RInt(32767)))

\* math.Max(-1.0, math.Min(1.0, sample))
Clamp(sample) ==
  LET lo == IF RLess(R1, sample) THEN R1 ELSE sample IN
  IF RLess(lo, RInt(-1)) THEN RInt(-1) ELSE lo

NewWAVWriter == [NoWav EXCEPT !.writer = "open", !.numSamples = 0]

\* writeHeader(): the size fields are computed from numSamples, 0 so far
WAVWriter_writeHeader(w) ==
  [w EXCEPT !.fileSize = Uint32(36 + w.numSamples * 2 * 2),
            !.dataSize = Uint32(w.numSamples * 2 * 2)]

WAVWriter_WriteSample(w, left, right) ==
  [w EXCEPT !.data = Append(@, <<Int16Sample(left), Int16Sample(right)>>),
            !.numSamples = @ + 1]

\* variant: Close() patches the RIFF size only
WAVWriter_Close_FileSizeOnly(w) ==
  [w EXCEPT !.fileSize = Uint32(36 + w.numSamples * 2 * 2),
            !.writer = "closed"]

\* Close(): seek to 4 and 40, rewrite both sizes, close the file
WAVWriter_Close(w) ==
  [w EXCEPT !.fileSize = Uint32(36 + w.numSamples * 2 * 2),
            !.dataSize = Uint32(w.numSamples * 2 * 2),
            !.writer = "closed"]

InitRender ==
  /\ sampleRate \in Rates
  /\ \E m \in Modules, t \in Tempos : module = [m EXCEPT !.Tempo = t]
  /\ Unconstructed

RenderFrame ==
  UNCHANGED <<module, sampleRate, calls, ret, hist, resets, stolen, used, ev,
              envelope, envLog, playback>>

\* RenderToWAV up to its loop: NewPlayer, NewWAVWriter, writeHeader; creates
\* and writes say whether os.Create and the header's writes succeed
RenderStart(creates, writes) ==
  /\ pc = "new"
  /\ VoiceAllocators' = NewPlayerAllocators(module, sampleRate)
  /\ samplesPerRow' = SamplesPerRow(module.Tempo, sampleRate)
  /\ currentPos' = 0 /\ currentRow' = 0 /\ sampleCounter' = 0
  /\ done' = FALSE
  /\ IF ~creates
     THEN /\ pc' = "failed"
          /\ wav' = [wav EXCEPT !.op = "RenderToWAV", !.err = "create"]
     ELSE IF ~writes
     THEN /\ pc' = "failed"
          /\ wav' = [NewWAVWriter EXCEPT !.op = "RenderToWAV", !.err = "header",
                                         !.writer = "closed"]
     ELSE /\ pc' = "render"
          /\ wav' = [WAVWriter_writeHeader(NewWAVWriter) EXCEPT !.op = "header"]
  /\ RenderFrame

\* one turn of the loop: Next(), clamp, WriteSample(sample, sample)
RenderSample(writes) ==
  /\ pc = "render" /\ ~done
  /\ wav.nexts < MaxSamples
  /\ LET r == Player_NextOf(ThePlayer)
         sample == Clamp(r.sample)
     IN  IF r.panics
         THEN /\ pc' = "panic"
              /\ wav' = [wav EXCEPT !.op = "Next"]
              /\ PlayerUnchanged
         ELSE /\ PlayerBecomes(r.player)
              /\ UNCHANGED samplesPerRow
              /\ IF writes
                 THEN /\ UNCHANGED pc
                      /\ wav' = [WAVWriter_WriteSample(wav, sample, sample)
                                   EXCEPT !.nexts = @ + 1, !.op = "WriteSample"]
                 ELSE /\ pc' = "failed"
                      /\ wav' = [wav EXCEPT !.nexts = @ + 1, !.writer = "closed",
                                            !.op = "RenderToWAV", !.err = "sample"]
  /\ RenderFrame

\* the loop has ended: Close(), return
RenderClose(closes) ==
  /\ pc = "render" /\ done
  /\ IF closes
     THEN /\ pc' = "rendered"
          /\ wav' = [WAVWriter_Close(wav) EXCEPT !.op = "RenderToWAV", !.err = "nil"]
     ELSE /\ pc' = "failed"
          /\ wav' = [wav EXCEPT !.op = "RenderToWAV", !.err = "close"]
  /\ PlayerUnchanged
  /\ RenderFrame

NextRender ==
  \/ \E creates \in BOOLEAN, writes \in BOOLEAN : RenderStart(creates, writes)
  \/ \E writes \in BOOLEAN : RenderSample(writes)
  \/ \E closes \in BOOLEAN : RenderClose(closes)

SpecRender == InitRender /\ [][NextRender]_vars

(***************************************************************************)
(* Properties of the standalone allocator (SpecAlloc)                      *)
(***************************************************************************)
Range(q) == {q[i] : i \in DOMAIN q}
IsDistinct(q) == \A i, j \in DOMAIN q : i # j => q[i] # q[j]
Va == VoiceAllocators[1]
VaNext == VoiceAllocators'[1]
Stage(v) == v.envelope.stage

\* C1: on a fresh allocator of 4 voices, 5 NoteOn calls for pairwise distinct
\* notes with no NoteOff or AllNotesOff in between leave exactly 4 notes in
\* the active-note list, and the first of the 5 notes is not among them.
C1_FifthNoteOnSteals ==
  (pc = "alloc" /\ Va.maxVoices = 4 /\ hist # Poisoned /\ Len(hist) = 5
     /\ IsDistinct(hist))
  => /\ Len(GetActiveNotes(Va)) = 4
     /\ GetActiveVoiceCount(Va) = 4
     /\ hist[1] \notin Range(GetActiveNotes(Va))

C1_Witness ==
  /\ pc = "alloc" /\ hist # Poisoned /\ Len(hist) = 5 /\ IsDistinct(hist)
  /\ ev.op = "NoteOn" /\ ev.note = hist[5]

\* C2: NoteOn for an unmapped note while every voice of the pool is active:
\* with a non-empty list the head is removed from map and list, the new note
\* gets the voice the head had and goes to the tail, the other entries keep
\* their mapping and order; with an empty list voice slot 0 is used.
C2_StealOldest ==
  [][(pc = "alloc" /\ ev'.op = "NoteOn" /\ ev'.note \notin DOMAIN Va.noteMap
        /\ ActiveVoices(Va) = DOMAIN Va.voices)
     => IF Va.activeNotes # << >>
        THEN LET head == Va.activeNotes[1] IN
             /\ DOMAIN VaNext.noteMap = (DOMAIN Va.noteMap \ {head}) \cup {ev'.note}
             /\ VaNext.noteMap[ev'.note] = Va.noteMap[head]
             /\ \A k \in DOMAIN Va.noteMap \ {head} :
                  VaNext.noteMap[k] = Va.noteMap[k]
             /\ VaNext.activeNotes = Append(Tail(Va.activeNotes), ev'.note)
        ELSE /\ ev'.note \in DOMAIN VaNext.noteMap
             /\ VaNext.noteMap[ev'.note] = 1
             /\ VaNext.activeNotes = <<ev'.note>>]_vars

C2_Witness ==
  /\ pc = "alloc" /\ ev.op = "NoteOn" /\ ~ev.mapped
  /\ ev.nActive = Len(Va.voices) /\ ev.nNotes >= 2
  /\ ev.note \in DOMAIN Va.noteMap

\* the fallback of C2 is reachable too: every voice active, nothing listed
C2_FallbackReached ==
  /\ pc = "alloc" /\ ev.op = "NoteOn" /\ ~ev.mapped
  /\ ev.nActive = Len(Va.voices) /\ ev.nNotes = 0

\* C3: NoteOn for a note already in the map restarts the voice the note is
\* mapped to and changes neither the map, nor the list (length and order),
\* nor any other voice.
C3_RetriggerKeepsOrder ==
  [][(pc = "alloc" /\ ev'.op = "NoteOn" /\ ev'.note \in DOMAIN Va.noteMap)
     => LET k == Va.noteMap[ev'.note] IN
        /\ VaNext.noteMap = Va.noteMap
        /\ VaNext.activeNotes = Va.activeNotes
        /\ GetActiveVoiceCount(VaNext) = GetActiveVoiceCount(Va)
        /\ \A i \in DOMAIN Va.voices \ {k} : VaNext.voices[i] = Va.voices[i]
        /\ Stage(VaNext.voices[k]) = "Attack"
        /\ VaNext.voices[k].envelope.sampleCount = 0
        /\ VaNext.voices[k].active
        /\ VaNext.voices[k].volume = ev'.vel]_vars

C3_Witness ==
  /\ pc = "alloc" /\ ev.op = "NoteOn" /\ ev.mapped /\ ev.nNotes >= 2
  /\ Va.activeNotes[Len(Va.activeNotes)] # ev.note

\* C4: NoteOff for a note that is not in the map changes nothing: no voice
\* is released, map and list stay as they are; so the NoteOff of a stolen
\* note leaves the voice that now sounds the stealing note alone.
C4_NoteOffUnmappedNoOp ==
  [][(pc = "alloc" /\ ev'.op = "NoteOff" /\ ev'.note \notin DOMAIN Va.noteMap)
     => VoiceAllocators' = VoiceAllocators]_vars

C4_Witness ==
  /\ pc = "alloc" /\ ev.op = "NoteOff" /\ ~ev.mapped /\ ev.note \in stolen
  /\ ev.nActive = Len(Va.voices) /\ Len(Va.activeNotes) = Len(Va.voices)

\* C5: NoteOff for a mapped note releases that note's voice and no other,
\* removes the note from the map and the list, and keeps every other
\* mapping and the order of the remaining list entries.
C5_NoteOffReleasesOne ==
  [][(pc = "alloc" /\ ev'.op = "NoteOff" /\ ev'.note \in DOMAIN Va.noteMap)
     => LET k == Va.noteMap[ev'.note] IN
        /\ Stage(VaNext.voices[k]) = "Release"
        /\ VaNext.voices[k].envelope.sampleCount = 0
        /\ \A i \in DOMAIN Va.voices \ {k} : VaNext.voices[i] = Va.voices[i]
        /\ DOMAIN VaNext.noteMap = DOMAIN Va.noteMap \ {ev'.note}
        /\ \A n \in DOMAIN VaNext.noteMap : VaNext.noteMap[n] = Va.noteMap[n]
        /\ VaNext.activeNotes =
             SelectSeq(Va.activeNotes, LAMBDA x : x # ev'.note)]_vars

C5_Witness ==
  /\ pc = "alloc" /\ ev.op = "NoteOff" /\ ev.mapped /\ ev.nNotes >= 3
  /\ Len(Va.activeNotes) = ev.nNotes - 1
  /\ \E i \in DOMAIN Va.voices : Stage(Va.voices[i]) = "Release"

\* C6: AllNotesOff releases every voice of the pool, mapped or not (every
\* envelope that is not Off goes to Release with its counter at 0, an Off
\* one stays as it is), and leaves the map and the list empty.
C6_AllNotesOffReleasesAll ==
  [][(pc = "alloc" /\ ev'.op = "AllNotesOff")
     => /\ \A i \in DOMAIN Va.voices :
             IF Stage(Va.voices[i]) # "Off"
             THEN /\ Stage(VaNext.voices[i]) = "Release"
                  /\ VaNext.voices[i].envelope.sampleCount = 0
             ELSE VaNext.voices[i] = Va.voices[i]
        /\ DOMAIN VaNext.noteMap = {}
        /\ VaNext.activeNotes = << >>]_vars

C6_Witness ==
  /\ pc = "alloc" /\ ev.op = "AllNotesOff"
  /\ ev.nNotes >= 1 /\ ev.nActive > ev.nNotes /\ ev.nActive < Len(Va.voices)
  /\ Va.activeNotes = << >>

RECURSIVE SampleSum(_, _)
SampleSum(voices, S) ==
  IF S = {} THEN R0
  ELSE LET i == CHOOSE x \in S : TRUE IN
       RAdd(Voice_Next(voices[i]).sample, SampleSum(voices, S \ {i}))

\* C7: VoiceAllocator.Next() returns the sum of Next() over exactly the
\* voices that are active at the call, mapped or not, divided by their
\* number, and 0 when none is active; it advances those voices and no other.
C7_NextAveragesActive ==
  [][(pc = "alloc" /\ ev'.op = "Next")
     => LET A == ActiveVoices(Va) IN
        /\ ret' = IF A = {} THEN R0
                  ELSE RDiv(SampleSum(Va.voices, A), RInt(Cardinality(A)))
        /\ \A i \in A : VaNext.voices[i] = Voice_Next(Va.voices[i]).voice
        /\ \A i \in DOMAIN Va.voices \ A : VaNext.voices[i] = Va.voices[i]
        /\ VaNext.noteMap = Va.noteMap
        /\ VaNext.activeNotes = Va.activeNotes]_vars

C7_Witness ==
  /\ pc = "alloc" /\ ev.op = "Next"
  /\ ev.nActive > ev.nNotes /\ ev.nNotes >= 1 /\ ev.nActive < Len(Va.voices)
  /\ ret # R0

\* with no voice active Next() returns 0
C7_SilenceReached ==
  pc = "alloc" /\ ev.op = "Next" /\ ev.nActive = 0 /\ ret = R0 /\ calls > 2

(***************************************************************************)
(* Properties of the player (Spec, SpecRun)                                *)
(***************************************************************************)
ValidSequence(m) ==
  \A i \in DOMAIN m.Sequence :
    m.Sequence[i] >= 0 /\ m.Sequence[i] < Len(m.Patterns)

RECURSIVE RowsUpTo(_, _)
RowsUpTo(m, n) ==
  IF n = 0 THEN 0
  ELSE RowsUpTo(m, n - 1) + m.Patterns[m.Sequence[n] + 1].Rows
TotalRows(m) == RowsUpTo(m, Len(m.Sequence))

\* C8 as stated: for every module whose sequence entries index existing
\* patterns, IsDone() is true exactly from samplesPerRow * (rows of the
\* sequenced patterns) Next() calls on.
C8_AsStated ==
  (pc = "ready" /\ ValidSequence(module))
  => (done <=> calls >= samplesPerRow * TotalRows(module))

\* C8 (amended): for a module with a non-empty sequence whose entries index
\* existing patterns of at least one row each, played with samplesPerRow >= 1,
\* IsDone() is false after every smaller number of Next() calls and true
\* after exactly samplesPerRow * (sum of the rows of the sequenced patterns)
\* calls: 4 * 5512 calls for the 4-row example at tempo 120 and 44100 Hz.
C8_DoneAfterExactly ==
  (/\ pc = "ready"
   /\ ValidSequence(module)
   /\ module.Sequence # << >>
   /\ \A i \in DOMAIN module.Sequence :
        module.Patterns[module.Sequence[i] + 1].Rows >= 1
   /\ samplesPerRow >= 1)
  => /\ done <=> calls >= samplesPerRow * TotalRows(module)
     /\ (module.Title = "example" /\ sampleRate = 44100 /\ module.Tempo = 120)
          => (samplesPerRow = 5512 /\ (done <=> calls >= 4 * 5512))

C8_Witness ==
  /\ pc = "ready" /\ module.Title = "example" /\ sampleRate = 44100
  /\ module.Tempo = 120 /\ calls = 4 * 5512 /\ done

\* C9 as stated: samplesPerRow is sampleRate*60/tempo/4 rounded to the
\* nearest integer (either way at a tie).
C9_AsStated ==
  pc = "ready"
  => LET x == Rat(60 * sampleRate, 4 * module.Tempo) IN
     2 * Abs(samplesPerRow * x.d - x.n) <= x.d

\* C9 (amended): NewPlayer sets samplesPerRow to (60/tempo/4)*sampleRate
\* truncated toward zero, for every tempo other than 0 and every sample rate.
C9_SamplesPerRowTruncates ==
  pc = "ready"
  => LET x == Rat(60 * sampleRate, 4 * module.Tempo) IN
     IF x.n >= 0
     THEN samplesPerRow * x.d <= x.n /\ x.n < (samplesPerRow + 1) * x.d
     ELSE (samplesPerRow - 1) * x.d < x.n /\ x.n <= samplesPerRow * x.d

C9_Witness ==
  pc = "ready" /\ module.Tempo = 9000 /\ sampleRate = 1760 /\ samplesPerRow = 2

\* C10: a row that is a rest on a channel issues nothing to that channel's
\* allocator (the call changes it as the sample mix alone does: map and list
\* stay), and an envelope in Sustain leaves Sustain only in a call that
\* processes a row holding a pitch or a note-off for its channel.
C10_RestRowIssuesNothing ==
  [][(pc = "ready" /\ ev'.op = "Next" /\ pc' = "ready")
     => \A i \in DOMAIN VoiceAllocators :
          LET read == IF sampleCounter = 0 /\ ~done
                      THEN NoteRead(module, currentPos, currentRow, i)
                      ELSE -3
              va == VoiceAllocators[i]
              va2 == VoiceAllocators'[i]
          IN  /\ (sampleCounter = 0 /\ ~done /\ read = -1)
                   => /\ va2.noteMap = va.noteMap
                      /\ va2.activeNotes = va.activeNotes
                      /\ \A k \in DOMAIN va.voices :
                           va2.voices[k] =
                             IF Voice_IsActive(va.voices[k])
                             THEN Voice_Next(va.voices[k]).voice
                             ELSE va.voices[k]
              /\ \A k \in DOMAIN va.voices :
                   (Stage(va.voices[k]) = "Sustain"
                      /\ Stage(va2.voices[k]) # "Sustain")
                   => (read >= 0 \/ read = -2)]_vars

C10_Witness ==
  /\ pc = "ready" /\ ev.op = "Next" /\ ev.row >= 0 /\ ev.held
  /\ \E i \in DOMAIN VoiceAllocators :
       /\ NoteRead(module, ev.pos, ev.row, i) = -1
       /\ VoiceAllocators[i].activeNotes # << >>
       /\ \E k \in DOMAIN VoiceAllocators[i].voices :
            Stage(VoiceAllocators[i].voices[k]) = "Sustain"

\* the allocator after its own Next() and nothing else
OwnNext(va) ==
  [va EXCEPT !.voices = [k \in DOMAIN va.voices |->
                           IF Voice_IsActive(va.voices[k])
                           THEN Voice_Next(va.voices[k]).voice
                           ELSE va.voices[k]]]

\* the module with the event of channel i at the cursor replaced by a rest
WithRestAt(m, pos, row, i) ==
  [m EXCEPT !.Patterns[m.Sequence[pos + 1] + 1].Channels[i][row + 1] = EvRest]

\* a call of Next() that processes a row
RowStep == pc = "ready" /\ ev'.op = "Next" /\ pc' = "ready"
             /\ sampleCounter = 0 /\ ~done

\* C11: a row whose note is -2 on a channel empties that channel's map and
\* list and leaves none of its voices in Attack, Decay or Sustain; every
\* other channel ends the call as it does when that event is a rest, and a
\* channel resting in the row keeps its map and list and only advances its
\* voices by a sample.
C11_NoteOffRowOneChannel ==
  [][RowStep
     => \A i \in DOMAIN VoiceAllocators :
          NoteRead(module, currentPos, currentRow, i) = -2
          => /\ DOMAIN VoiceAllocators'[i].noteMap = {}
             /\ VoiceAllocators'[i].activeNotes = << >>
             /\ \A k \in DOMAIN VoiceAllocators[i].voices :
                  /\ Stage(VoiceAllocators'[i].voices[k]) \in {"Release", "Off"}
                  /\ Stage(VoiceAllocators[i].voices[k]) = "Off"
                       => VoiceAllocators'[i].voices[k]
                            = VoiceAllocators[i].voices[k]
             /\ LET rested == processRow(VoiceAllocators,
                                         WithRestAt(module, currentPos,
                                                    currentRow, i),
                                         currentPos, currentRow)
                IN  \A j \in DOMAIN VoiceAllocators \ {i} :
                      /\ VoiceAllocators'[j] = OwnNext(rested[j])
                      /\ NoteRead(module, currentPos, currentRow, j) \in {-1, -3}
                           => VoiceAllocators'[j] = OwnNext(VoiceAllocators[j])]_vars

C11_Witness ==
  /\ pc = "ready" /\ ev.op = "Next" /\ ev.row >= 0
  /\ \E i, j \in DOMAIN VoiceAllocators :
       /\ i # j
       /\ NoteRead(module, ev.pos, ev.row, i) = -2
       /\ \E k \in DOMAIN VoiceAllocators[i].voices :
            Stage(VoiceAllocators[i].voices[k]) = "Release"
       /\ VoiceAllocators[j].activeNotes # << >>
       /\ \E k \in DOMAIN VoiceAllocators[j].voices :
            Stage(VoiceAllocators[j].voices[k]) \in {"Attack", "Decay", "Sustain"}

\* the event the player reads for allocator i at a cursor where it reads one
EventRead(m, pos, row, i) ==
  m.Patterns[m.Sequence[pos + 1] + 1].Channels[i][row + 1]

\* NoteOn for each pitch of a list, first to last
RECURSIVE NoteOnAll(_, _, _)
NoteOnAll(va, pitches, velocity) ==
  IF pitches = << >> THEN va
  ELSE NoteOnAll(VoiceAllocator_NoteOn(va, Head(pitches), velocity),
                 Tail(pitches), velocity)

IsPitch(n) == n >= 0

\* C12: a row whose note is >= 0 on a channel leaves that channel's allocator
\* as NoteOn for the main pitch, then NoteOn for each chord pitch >= 0 in
\* order, leave it (followed by the call's own sample), each with the event's
\* volume, or with 1.0 when that volume is 0.
C12_NoteRowCallsNoteOn ==
  [][RowStep
     => \A i \in DOMAIN VoiceAllocators :
          NoteRead(module, currentPos, currentRow, i) >= 0
          => LET e == EventRead(module, currentPos, currentRow, i)
                 velocity == IF e.Volume = R0 THEN R1 ELSE e.Volume
                 pitches == <<e.Note>> \o SelectSeq(e.Chord, IsPitch)
             IN  VoiceAllocators'[i]
                   = OwnNext(NoteOnAll(VoiceAllocators[i], pitches, velocity))]_vars

C12_Witness ==
  /\ pc = "ready" /\ ev.op = "Next" /\ ev.row >= 0
  /\ \E i \in DOMAIN VoiceAllocators :
       /\ NoteRead(module, ev.pos, ev.row, i) >= 0
       /\ LET e == EventRead(module, ev.pos, ev.row, i) IN
            /\ Len(e.Chord) >= 2
            /\ \E k \in DOMAIN e.Chord : e.Chord[k] < 0
            /\ VoiceAllocators[i].activeNotes
                 = <<e.Note>> \o SelectSeq(e.Chord, IsPitch)

C12_DefaultVolumeReached ==
  /\ pc = "ready" /\ ev.op = "Next" /\ ev.row >= 0
  /\ \E i \in DOMAIN VoiceAllocators :
       /\ NoteRead(module, ev.pos, ev.row, i) >= 0
       /\ LET e == EventRead(module, ev.pos, ev.row, i) IN
            /\ e.Volume = R0
            /\ e.Note \in DOMAIN VoiceAllocators[i].noteMap
            /\ VoiceAllocators[i].voices[VoiceAllocators[i].noteMap[e.Note]].volume
                 = R1

\* C13: once IsDone() is true, every call other than Reset() leaves it
\* true, and a Next() returns 0 and changes neither the cursor nor any
\* allocator or voice.
C13_DoneIsTerminal ==
  [][(pc = "ready" /\ done)
     => \/ ev'.op = "Reset"
        \/ /\ done'
           /\ ev'.op = "Next"
              => /\ ret' = R0
                 /\ VoiceAllocators' = VoiceAllocators
                 /\ currentPos' = currentPos
                 /\ currentRow' = currentRow
                 /\ sampleCounter' = sampleCounter]_vars

\* a Next() made on a done player whose voices still sound
C13_Witness ==
  /\ pc = "ready" /\ done /\ resets = 0 /\ ev.op = "Next"
  /\ module.Title = "steal" /\ samplesPerRow = 2
  /\ calls > samplesPerRow * TotalRows(module)
  /\ ret = R0
  /\ \E i \in DOMAIN VoiceAllocators : VoiceAllocator_IsActive(VoiceAllocators[i])

\* C14: Reset() sets sequence position, row and sample counter to 0, clears
\* the done flag and leaves every allocator (maps, lists, and the voices with
\* their envelope stage, level and oscillator phase) as it was.
C14_ResetRewindsOnly ==
  [][(pc = "ready" /\ ev'.op = "Reset")
     => /\ currentPos' = 0 /\ currentRow' = 0 /\ sampleCounter' = 0
        /\ ~done'
        /\ \A i \in DOMAIN VoiceAllocators :
             /\ VoiceAllocators'[i].noteMap = VoiceAllocators[i].noteMap
             /\ VoiceAllocators'[i].activeNotes = VoiceAllocators[i].activeNotes
             /\ \A k \in DOMAIN VoiceAllocators[i].voices :
                  LET v == VoiceAllocators[i].voices[k]
                      w == VoiceAllocators'[i].voices[k]
                  IN  /\ w.envelope = v.envelope
                      /\ w.oscillator = v.oscillator
                      /\ w.active = v.active
                      /\ w.volume = v.volume]_vars

\* a Reset() away from the start, with a mapped note sounding
C14_Witness ==
  /\ pc = "ready" /\ ev.op = "Reset" /\ (ev.pos > 0 \/ ev.row > 0)
  /\ currentPos = 0 /\ currentRow = 0 /\ sampleCounter = 0 /\ ~done
  /\ \E i \in DOMAIN VoiceAllocators :
       /\ VoiceAllocators[i].activeNotes # << >>
       /\ \E k \in DOMAIN VoiceAllocators[i].voices :
            /\ Stage(VoiceAllocators[i].voices[k]) = "Sustain"
            /\ VoiceAllocators[i].voices[k].envelope.level # R0

\* a Reset() of a done player
C14_DoneClearedReached ==
  /\ pc = "ready" /\ ev.op = "Reset" /\ ev.pos >= Len(module.Sequence)
  /\ module.Sequence # << >> /\ ~done

(***************************************************************************)
(* Properties of the envelope (SpecEnv)                                    *)
(***************************************************************************)
\* the stage lengths in samples: int(time * sampleRate)
AttackSamples == TruncToInt(RMul(envelope.attackTime, RInt(envelope.sampleRate)))
DecaySamples == TruncToInt(RMul(envelope.decayTime, RInt(envelope.sampleRate)))
ReleaseSamples == TruncToInt(RMul(envelope.releaseTime, RInt(envelope.sampleRate)))

\* C16 as stated: attackSamples calls of Next() after Trigger() leave the
\* level at 1.0.
C16_AsStated ==
  (pc = "env" /\ AttackSamples > 0 /\ envLog.sinceTrigger = AttackSamples)
  => envelope.level = R1

\* C16 (amended): after Trigger(), the n-th call of Next() for n up to
\* attackSamples (> 0) returns (n-1)/attackSamples, below 1.0, and the call
\* after those, attackSamples + 1 calls in all, leaves the level equal to 1.0.
C16_PeakAfterAttackPlusOne ==
  (pc = "env" /\ AttackSamples > 0 /\ envLog.sinceTrigger >= 1)
  => /\ envLog.sinceTrigger <= AttackSamples
          => /\ envelope.level = Rat(envLog.sinceTrigger - 1, AttackSamples)
             /\ ret = envelope.level
             /\ envelope.stage = "Attack"
     /\ envLog.sinceTrigger = AttackSamples + 1
          => /\ envelope.level = R1
             /\ ret = R1
             /\ envelope.stage = "Decay"

C16_Witness ==
  /\ pc = "env" /\ AttackSamples = 3 /\ envLog.sinceTrigger = 4
  /\ envelope.level = R1

\* C17 as stated: attackSamples + decaySamples calls of Next() after
\* Trigger() leave the level at sustainLevel.
C17_AsStated ==
  (pc = "env" /\ AttackSamples > 0 /\ DecaySamples > 0
     /\ envLog.sinceTrigger = AttackSamples + DecaySamples)
  => envelope.level = envelope.sustainLevel

\* C17 (amended): after Trigger() with both lengths > 0 and no Release() in
\* between, the calls attackSamples + 2 .. attackSamples + decaySamples + 1
\* of Next() return the decay ramp 1 + (j/decaySamples)(sustainLevel - 1),
\* j = 0 .. decaySamples - 1, and the call after those, attackSamples +
\* decaySamples + 2 calls in all, leaves the level equal to sustainLevel and
\* the stage Sustain; after any more calls both stay.
C17_SustainAfterDecayPlusTwo ==
  (pc = "env" /\ AttackSamples > 0 /\ DecaySamples > 0
     /\ envLog.sinceTrigger >= AttackSamples + 2)
  => LET j == envLog.sinceTrigger - AttackSamples - 2 IN
     IF j < DecaySamples
     THEN /\ envelope.stage = "Decay"
          /\ envelope.level =
               RAdd(R1, RMul(Rat(j, DecaySamples),
                             RSub(envelope.sustainLevel, R1)))
     ELSE /\ envelope.stage = "Sustain"
          /\ envelope.level = envelope.sustainLevel
          /\ ret = envelope.sustainLevel

C17_Witness ==
  /\ pc = "env" /\ AttackSamples = 2 /\ DecaySamples = 2
  /\ envLog.sinceTrigger = AttackSamples + DecaySamples + 2
  /\ envelope.sustainLevel = Rat(1, 2) /\ envelope.level = Rat(1, 2)
  /\ envelope.stage = "Sustain"

\* C18 as stated: releaseSamples calls of Next() after Release() on an
\* envelope that is not Off leave level 0.0 and the envelope inactive.
C18_AsStated ==
  (pc = "env" /\ ReleaseSamples > 0 /\ envLog.sinceRelease = ReleaseSamples)
  => (envelope.level = R0 /\ ~Envelope_IsActive(envelope))

\* C18 (amended): after Release() on an envelope that is not Off, each of
\* the first releaseSamples (> 0) calls of Next() leaves the envelope active
\* in Release, and the call after those, releaseSamples + 1 calls in all,
\* leaves level 0.0 and IsActive() false.
C18_OffAfterReleasePlusOne ==
  (pc = "env" /\ ReleaseSamples > 0 /\ envLog.sinceRelease >= 1)
  => IF envLog.sinceRelease <= ReleaseSamples
     THEN /\ Envelope_IsActive(envelope)
          /\ envelope.stage = "Release"
     ELSE /\ envelope.level = R0
          /\ ret = R0
          /\ ~Envelope_IsActive(envelope)

C18_Witness ==
  /\ pc = "env" /\ ReleaseSamples = 3 /\ envLog.sinceRelease = 4
  /\ envLog.stageAtRelease = "Sustain" /\ envLog.levelAtRelease # R0
  /\ envelope.level = R0 /\ envelope.stage = "Off"

\* C19: after Release() in Attack, Decay or Sustain, the first Next() returns
\* the level the envelope had just before Release(), and no Next() during
\* the release raises the level.
C19_ReleaseFromCurrentLevel ==
  (pc = "env" /\ envLog.op = "Next" /\ envLog.sinceRelease >= 1
     /\ envLog.stageAtRelease \in {"Attack", "Decay", "Sustain"})
  => /\ envLog.sinceRelease = 1 => ret = envLog.levelAtRelease
     /\ RLeq(envelope.level, envLog.levelBefore)

\* C20: for an envelope whose sustainLevel is in [0,1], after every sequence
\* of Trigger(), Release() and Next() calls the level is in [0,1] and
\* IsActive() is true exactly in the stages Attack, Decay, Sustain and Release.
C20_LevelInUnitInterval ==
  (pc = "env" /\ RLeq(R0, envelope.sustainLevel)
     /\ RLeq(envelope.sustainLevel, R1))
  => /\ RLeq(R0, envelope.level)
     /\ RLeq(envelope.level, R1)
     /\ RLeq(R0, ret) /\ RLeq(ret, R1)
     /\ Envelope_IsActive(envelope)
          <=> envelope.stage \in {"Attack", "Decay", "Sustain", "Release"}

\* inside the decay ramp, strictly between sustainLevel and the peak
C20_Witness ==
  /\ pc = "env" /\ envLog.op = "Next" /\ envelope.stage = "Decay"
  /\ envelope.sustainLevel = Rat(1, 2)
  /\ RLess(envelope.sustainLevel, envelope.level) /\ RLess(envelope.level, R1)

\* an envelope retriggered while its release was running
C20_RetriggerReached ==
  /\ pc = "env" /\ envLog.op = "Next" /\ envLog.sinceTrigger = 1
  /\ envLog.stageAtRelease # "Off" /\ envelope.stage = "Attack"
  /\ RLess(R0, envLog.levelBefore)

\* C21: Next() keeps an envelope in Sustain there with its level at
\* sustainLevel, and moves the stage only Attack->Decay, Decay->Sustain and
\* Release->Off; Sustain is left only by Release() (to Release) or by
\* Trigger() (to Attack).
C21_SustainHolds ==
  [][pc = "env"
     => /\ envLog'.op = "Next"
           => /\ envelope.stage = "Sustain"
                 => /\ envelope'.stage = "Sustain"
                    /\ envelope'.level = envelope.sustainLevel
                    /\ ret' = envelope.sustainLevel
              /\ envelope'.stage # envelope.stage
                 => <<envelope.stage, envelope'.stage>>
                      \in {<<"Attack", "Decay">>, <<"Decay", "Sustain">>,
                           <<"Release", "Off">>}
        /\ (envelope.stage = "Sustain" /\ envelope'.stage # "Sustain")
           => \/ envLog'.op = "Release" /\ envelope'.stage = "Release"
              \/ envLog'.op = "Trigger" /\ envelope'.stage = "Attack"]_vars

\* an envelope that has spent at least two Next() calls in Sustain
C21_Witness ==
  /\ pc = "env" /\ envLog.op = "Next" /\ envelope.stage = "Sustain"
  /\ AttackSamples > 0 /\ DecaySamples > 0
  /\ envLog.sinceTrigger >= AttackSamples + DecaySamples + 4
  /\ envelope.level = envelope.sustainLevel

\* C22: Release() on an envelope whose stage is Off changes neither the
\* stage, the level nor the sample counter and leaves IsActive() false; a
\* NoteOff or AllNotesOff leaves every voice whose envelope is Off with the
\* same envelope, and a voice that was silent is silent afterwards.
C22_ReleaseOffNoOp ==
  [][/\ (pc = "env" /\ envLog'.op = "Release" /\ envelope.stage = "Off")
        => /\ envelope'.stage = "Off"
           /\ envelope'.level = envelope.level
           /\ envelope'.sampleCount = envelope.sampleCount
           /\ ~Envelope_IsActive(envelope')
     /\ (pc = "alloc" /\ ev'.op \in {"NoteOff", "AllNotesOff"})
        => \A i \in DOMAIN Va.voices :
             Stage(Va.voices[i]) = "Off"
             => /\ VaNext.voices[i].envelope = Va.voices[i].envelope
                /\ ~Envelope_IsActive(VaNext.voices[i].envelope)
                /\ ~Voice_IsActive(Va.voices[i])
                   => ~Voice_IsActive(VaNext.voices[i])]_vars

\* an AllNotesOff that found a sounding voice next to one that had played
\* and fallen silent
C22_Witness ==
  /\ pc = "alloc" /\ ev.op = "AllNotesOff" /\ ev.nActive >= 1
  /\ \E i \in DOMAIN Va.voices :
       /\ Stage(Va.voices[i]) = "Off" /\ ~Voice_IsActive(Va.voices[i])
       /\ Va.voices[i].oscillator.phase # R0
  /\ \E j \in DOMAIN Va.voices : Stage(Va.voices[j]) = "Release"

\* a Release() on an Off envelope that had run through a whole note
C22_EnvelopeOffReached ==
  /\ pc = "env" /\ envLog.op = "Release" /\ envelope.stage = "Off"
  /\ envLog.stageAtRelease = "Off" /\ calls >= 4

\* every envelope the voice runs on: its own, or one per FM operator
VoiceEnvelopes(v) ==
  IF Voice_OnFMPath(v)
  THEN {v.fmInstrument.operators[i].envelope : i \in DOMAIN v.fmInstrument.operators}
  ELSE {v.envelope}

EnvelopesOff(v) == \A e \in VoiceEnvelopes(v) : e.stage = "Off"

\* C23: a NoteOff of a mapped note leaves its voice busy; after every call
\* a voice reports IsActive() exactly while one of its envelopes (its own,
\* or any FM operator's) is not Off, so a released voice is busy until the
\* Next() that brings the last envelope to Off and inactive from then on;
\* and a NoteOn of a note that is not mapped takes a busy voice only when no
\* voice of the pool is free.
C23_ReleasedVoiceStaysBusy ==
  [][pc = "alloc"
     => /\ \A i \in DOMAIN VaNext.voices :
             Voice_IsActive(VaNext.voices[i]) <=> ~EnvelopesOff(VaNext.voices[i])
        /\ (ev'.op = "NoteOff" /\ ev'.mapped)
           => LET k == Va.noteMap[ev'.note] IN
              /\ Voice_IsActive(VaNext.voices[k])
              /\ \A e \in VoiceEnvelopes(VaNext.voices[k]) : e.stage = "Release"
              /\ k \notin Range(VaNext.noteMap)
        /\ (ev'.op = "Next")
           => \A i \in DOMAIN Va.voices :
                /\ ~Voice_IsActive(Va.voices[i])
                   => VaNext.voices[i] = Va.voices[i]
                /\ (Voice_IsActive(Va.voices[i]) /\ ~Voice_IsActive(VaNext.voices[i]))
                   => /\ ~EnvelopesOff(Va.voices[i])
                      /\ EnvelopesOff(VaNext.voices[i])
        /\ (ev'.op = "NoteOn" /\ ~ev'.mapped)
           => LET k == VaNext.noteMap[ev'.note] IN
              Voice_IsActive(Va.voices[k])
              => \A i \in DOMAIN Va.voices : Voice_IsActive(Va.voices[i])]_vars

\* a released FM voice that is still busy although one of its operators has
\* finished its release
C23_Witness ==
  /\ pc = "alloc" /\ ev.op = "Next"
  /\ \E i \in DOMAIN Va.voices :
       LET v == Va.voices[i] IN
       /\ Voice_OnFMPath(v) /\ Voice_IsActive(v)
       /\ i \notin Range(Va.noteMap)
       /\ \E e \in VoiceEnvelopes(v) : e.stage = "Off"
       /\ \E e \in VoiceEnvelopes(v) : e.stage = "Release"

\* a NoteOn of a new note went past a busy released voice to a free one
C23_BusySkipped ==
  /\ pc = "alloc" /\ ev.op = "NoteOn" /\ ~ev.mapped
  /\ Va.noteMap[ev.note] = 2
  /\ 1 \notin Range(Va.noteMap)
  /\ Voice_IsActive(Va.voices[1])
  /\ \E e \in VoiceEnvelopes(Va.voices[1]) : e.stage = "Release"

\* a released voice, FM or not, became inactive by a Next()
C23_ReleasedThenFree ==
  /\ pc = "alloc" /\ ev.op = "Next" /\ ev.nActive >= 1
  /\ \A i \in DOMAIN Va.voices : ~Voice_IsActive(Va.voices[i])

\* C24: a Read that starts when the done channel is closed returns 0 and
\* io.EOF and leaves the player as it was (no Next()); a Read that got past
\* the check makes numSamples calls of Next() and returns numSamples * 8
\* with each of its frames holding float32 of the returned value in both
\* channels, whether or not Stop() came while it ran; Stop() itself touches
\* neither the loop nor the buffer.
C24_StopEndsReadsKeepsBlocks ==
  [][pc = "ready"
     => /\ (playback.reader = "idle" /\ playback'.reads = playback.reads + 1
              /\ playback.closed)
           => /\ playback'.reader = "idle"
              /\ playback'.n = 0 /\ playback'.err = "EOF"
              /\ playback'.made = << >>
              /\ ThePlayer' = ThePlayer
        /\ (playback'.op = "Read" /\ playback'.err = "nil")
           => /\ playback'.n = 8 * playback'.numSamples
              /\ playback'.numSamples = (playback'.lenp \div 4) \div 2
              /\ Len(playback'.made) = playback'.numSamples
              /\ \A k \in 1..playback'.numSamples :
                   /\ playback'.p[2 * k - 1] = Float32(playback'.made[k])
                   /\ playback'.p[2 * k] = playback'.p[2 * k - 1]
        /\ (playback'.op = "Stop" /\ pc' = "ready")
           => /\ playback'.closed
              /\ playback'.reader = playback.reader
              /\ playback'.i = playback.i
              /\ playback'.p = playback.p
              /\ ThePlayer' = ThePlayer]_vars

\* a Read of two frames returned whole although Stop() came after its
\* first frame
C24_Witness ==
  /\ pc = "ready" /\ playback.op = "Read" /\ playback.err = "nil"
  /\ playback.numSamples = 2 /\ playback.stopAt = 1
  /\ playback.closed
  /\ playback.p[1] # playback.p[3]

\* the Read after a Stop() returned io.EOF
C24_EOFAfterStopReached ==
  /\ pc = "ready" /\ playback.op = "Read" /\ playback.err = "EOF"
  /\ playback.closed /\ ~done /\ playback.reads >= 2

\* C25: while the output plays, no field of the Player is accessed from
\* the controlling context: only the worker reads and writes them.
C25_PlayerStateWorkerOnly ==
  (pc = "ready" /\ playback.playing) => playback.shared = {}

\* C29: NewVTMPlayer with a sample rate other than 44100 and 48000 returns
\* an error and no player, opens no output, and nothing is attempted after
\* the failure.
C29_BadRateFailsWithoutOutput ==
  [][/\ (pc = "new" /\ sampleRate \notin {44100, 48000})
        => /\ pc' = "failed"
           /\ playback'.error # "none"
           /\ ~playback'.created /\ ~playback'.playing
           /\ playback'.opened = 0
           /\ VoiceAllocators' = << >>
     /\ pc # "failed"]_vars

\* a file that loads, refused for its rate of 22050
C29_Witness ==
  /\ pc = "failed" /\ playback.error = "rate" /\ sampleRate = 22050
  /\ playback.opened = 0

\* C26: a Next() that processes a row never fails, and a channel for which
\* the cursor names no event (sequence entry that is no pattern index, no
\* such channel in the pattern, no such row in the channel) gets no call
\* but its Next().
C26_OutOfRangeTriggersNothing ==
  [][(pc = "ready" /\ ev'.op = "Next" /\ ~done /\ sampleCounter = 0)
     => /\ pc' = "ready"
        /\ \A i \in DOMAIN VoiceAllocators :
             NoteRead(module, currentPos, currentRow, i) = -3
             => VoiceAllocators'[i] = OwnNext(VoiceAllocators[i])]_vars

\* the part of C26 behind the guards of processRow: when the call returns,
\* the channels without an event were only advanced
C26_GuardedIndicesSkipped ==
  [][RowStep
     => \A i \in DOMAIN VoiceAllocators :
          NoteRead(module, currentPos, currentRow, i) = -3
          => VoiceAllocators'[i] = OwnNext(VoiceAllocators[i])]_vars

\* a row was processed past the end of the patterns while a note sounded
C26_TooLargeReached ==
  /\ pc = "ready" /\ ev.op = "Next" /\ ev.pos >= 0
  /\ ev.pos < Len(module.Sequence)
  /\ module.Sequence[ev.pos + 1] >= Len(module.Patterns)
  /\ \E i \in DOMAIN VoiceAllocators : VoiceAllocator_IsActive(VoiceAllocators[i])

\* C28: when RenderToWAV has returned nil, the file holds one frame for
\* each Next() call the loop made, the player is done, and the header's
\* sizes are 36 + 4 * N and 4 * N for that number N of frames, no longer
\* the 36 and 0 written before the loop; every turn of the loop makes one
\* call and appends one frame with the same value in both channels.
C28_OneFramePerNextSizesPatched ==
  [][/\ pc' = "rendered"
        => LET N == Len(wav'.data) IN
           /\ done'
           /\ N = wav'.nexts /\ N = wav'.numSamples /\ N >= 1
           /\ wav'.dataSize = <<(4 * N) % 65536, (4 * N) \div 65536>>
           /\ wav'.fileSize = <<(36 + 4 * N) % 65536, (36 + 4 * N) \div 65536>>
           /\ wav'.dataSize # <<0, 0>> /\ wav'.fileSize # <<36, 0>>
     /\ (pc = "render" /\ pc' = "render")
        => /\ wav'.nexts = wav.nexts + 1
           /\ Len(wav'.data) = Len(wav.data) + 1
           /\ wav'.data[Len(wav'.data)][1] = wav'.data[Len(wav'.data)][2]
           /\ SubSeq(wav'.data, 1, Len(wav.data)) = wav.data
           /\ wav'.fileSize = <<36, 0>> /\ wav'.dataSize = <<0, 0>>]_vars

\* a finished render of at least three frames, not all of them silent
C28_Witness ==
  /\ pc = "rendered" /\ wav.numSamples >= 3
  /\ \E k \in DOMAIN wav.data : wav.data[k][1] # 0

\* C30 as stated: in every state of a constructed player the sample counter
\* is at least 0 and below samplesPerRow.
C30_AsStated ==
  pc # "new" => (0 <= sampleCounter /\ sampleCounter < samplesPerRow)

\* C30, amended: in every state of a constructed player, after any Next(),
\* Stream() and Reset() calls, the sample counter is at least 0; it is below
\* samplesPerRow when samplesPerRow is at least 1, and it is 0 when
\* samplesPerRow is 0 or negative.
C30_CounterBelowRowLength ==
  pc # "new"
  => /\ 0 <= sampleCounter
     /\ samplesPerRow >= 1 => sampleCounter < samplesPerRow
     /\ samplesPerRow <= 0 => sampleCounter = 0

\* after a Reset(), a Stream() of two frames or more has left the counter
\* on the last sample of a row of three
C30_Witness ==
  /\ pc = "ready" /\ ev.op = "Stream" /\ ev.n >= 2 /\ resets >= 1
  /\ samplesPerRow = 3 /\ sampleCounter = 2

\* a Stream() has run on a player whose rows have no samples
C30_ZeroRowStreamed ==
  /\ pc = "ready" /\ ev.op = "Stream" /\ ev.n >= 2
  /\ samplesPerRow <= 0 /\ sampleCounter = 0

\* the cursor is where Next() cannot move it: past the sequence, or on a
\* sequence entry past the patterns
Stuck ==
  /\ pc = "ready" /\ ~done
  /\ \/ currentPos >= Len(module.Sequence)
     \/ module.Sequence[currentPos + 1] >= Len(module.Patterns)

C27_StuckStays ==
  [][Stuck => (pc' = "ready" /\ ~done' /\ currentPos' = currentPos)]_vars

\* a player stuck on a sequence entry past the patterns, and a player of an
\* empty sequence, after Next() calls
C27_StuckReached ==
  /\ Stuck /\ calls >= 3
  /\ currentPos < Len(module.Sequence)

C27_EmptyStuckReached == Stuck /\ calls >= 3 /\ module.Sequence = << >>

\* every other player is done within the calls the driver makes
C27_OthersFinish ==
  (pc = "ready" /\ calls = Budget /\ ~done)
  => \/ module.Sequence = << >>
     \/ \E k \in DOMAIN module.Sequence : module.Sequence[k] >= Len(module.Patterns)

(***************************************************************************)
(* Row order, the query and bypass surface, allocator consistency          *)
(***************************************************************************)
\* the place of row `row` of sequence position `pos` among the rows of the
\* sequenced patterns, counted from 0
RowIndex(m, pos, row) == RowsUpTo(m, pos) + row

\* a Next() call that returns, made on a player that is not done
LiveNext == pc = "ready" /\ ev'.op = "Next" /\ pc' = "ready" /\ ~done

\* C31 as stated: for a module whose sequence entries index existing
\* patterns, a Next() call with sampleCounter = 0 is the call with sample
\* index k * samplesPerRow for the k-th row in sequence order, that row being
\* one of rows 0..Rows-1 of its pattern, and a call with sampleCounter # 0
\* triggers nothing.
C31_AsStated ==
  [][(LiveNext /\ ValidSequence(module))
     => IF sampleCounter = 0
        THEN currentPos < Len(module.Sequence)
             => /\ calls = RowIndex(module, currentPos, currentRow) * samplesPerRow
                /\ currentRow < module.Patterns[module.Sequence[currentPos + 1] + 1].Rows
        ELSE \A i \in DOMAIN VoiceAllocators :
               VoiceAllocators'[i] = OwnNext(VoiceAllocators[i])]_vars

\* C31, amended: for a module whose sequence entries index existing patterns
\* of at least one row each, played with samplesPerRow >= 1, the calls with
\* sampleCounter = 0 are the calls whose sample index is a multiple of
\* samplesPerRow; the call with index k * samplesPerRow processes the k-th row
\* in sequence order, one of rows 0..Rows-1 of its pattern, and a call with
\* sampleCounter # 0 triggers nothing.
C31_RowsOnceInOrder ==
  [][(/\ LiveNext /\ ValidSequence(module)
      /\ \A i \in DOMAIN module.Sequence :
           module.Patterns[module.Sequence[i] + 1].Rows >= 1
      /\ samplesPerRow >= 1)
     => /\ sampleCounter = 0 <=> calls % samplesPerRow = 0
        /\ IF sampleCounter = 0
           THEN currentPos < Len(module.Sequence)
                => /\ calls = RowIndex(module, currentPos, currentRow) * samplesPerRow
                   /\ currentRow < module.Patterns[module.Sequence[currentPos + 1] + 1].Rows
           ELSE \A i \in DOMAIN VoiceAllocators :
                  VoiceAllocators'[i] = OwnNext(VoiceAllocators[i])]_vars

\* the second row of the second sequenced pattern has just been processed,
\* on the call with sample index 4 * 3
C31_Witness ==
  /\ pc = "ready" /\ ev.op = "Next" /\ module.Title = "song"
  /\ samplesPerRow = 3 /\ ev.pos = 1 /\ ev.row = 1 /\ calls = 4 * 3 + 1


\* C32 as stated: in every reachable allocator state GetActiveVoiceCount()
\* is the number of pool voices for which IsActive() is true, voices that
\* ring on after a release or a steal included.
C32_CountsActiveVoices ==
  pc = "alloc" => GetActiveVoiceCount(Va) = Cardinality(ActiveVoices(Va))

\* what the code does return: the length of the active-note list
C32_CountsMappedNotes ==
  pc = "alloc" => GetActiveVoiceCount(Va) = Cardinality(DOMAIN Va.noteMap)

\* a released voice still rings and is not counted
C32_RingingUncounted ==
  /\ pc = "alloc" /\ ev.op = "NoteOff"
  /\ GetActiveVoiceCount(Va) = 0 /\ Cardinality(ActiveVoices(Va)) = 1


(***************************************************************************)
(* The chord calls and the direct voice calls on the standalone allocator  *)
(***************************************************************************)
MaxChordCalls == 4   \* method calls made when chord calls are among them
MaxBypassCalls == 3  \* method calls made when direct voice calls are among them

\* two notes, one note twice, as many notes as voices, one more than that
Chords == {<<57, 69>>, <<57, 57>>, <<57, 69, 45, 81>>, <<57, 69, 45, 81, 33>>}

\* the voice indices passed: those of the pool, one below and one above
VoiceIndexes == -1..maxPolyphony

RECURSIVE UseNotes(_, _)
UseNotes(n, notes) ==
  IF notes = << >> THEN n ELSE UseNotes(UseNote(n, Head(notes)), Tail(notes))

\* what the NoteOn calls of a chord add to the record of stolen notes
RECURSIVE StolenBy(_, _, _, _)
StolenBy(s, va, notes, velocity) ==
  IF notes = << >> THEN s
  ELSE StolenBy(IF /\ Head(notes) \notin DOMAIN va.noteMap
                   /\ ActiveVoices(va) = DOMAIN va.voices
                   /\ va.activeNotes # << >>
                THEN (s \cup {va.activeNotes[1]}) \ {Head(notes)}
                ELSE s \ {Head(notes)},
                VoiceAllocator_NoteOn(va, Head(notes), velocity),
                Tail(notes), velocity)

PlayChord(notes, velocity) ==
  /\ calls < MaxChordCalls
  /\ calls' = calls + 1
  /\ VoiceAllocators' =
       [VoiceAllocators EXCEPT ![1] = VoiceAllocator_PlayChord(@, notes, velocity)]
  /\ hist' = IF hist = Poisoned THEN Poisoned ELSE hist \o notes
  /\ used' = UseNotes(used, notes)
  /\ stolen' = StolenBy(stolen, VoiceAllocators[1], notes, velocity)
  /\ ev' = [AllocEvent("PlayChord", -1, velocity, VoiceAllocators[1])
              EXCEPT !.notes = notes]
  /\ UNCHANGED ret
  /\ AllocFrame

ReleaseChord(notes) ==
  /\ calls < MaxChordCalls
  /\ calls' = calls + 1
  /\ VoiceAllocators' =
       [VoiceAllocators EXCEPT ![1] = VoiceAllocator_ReleaseChord(@, notes)]
  /\ hist' = Poisoned
  /\ used' = UseNotes(used, notes)
  /\ ev' = [AllocEvent("ReleaseChord", -1, R0, VoiceAllocators[1])
              EXCEPT !.notes = notes]
  /\ UNCHANGED <<ret, stolen>>
  /\ AllocFrame

SetVoiceNote(voiceIndex, note, velocity) ==
  /\ calls < MaxBypassCalls
  /\ calls' = calls + 1
  /\ VoiceAllocators' =
       [VoiceAllocators EXCEPT
          ![1] = VoiceAllocator_SetVoiceNote(@, voiceIndex, note, velocity)]
  /\ hist' = Poisoned
  /\ used' = UseNote(used, note)
  /\ ev' = [AllocEvent("SetVoiceNote", note, velocity, VoiceAllocators[1])
              EXCEPT !.index = voiceIndex]
  /\ UNCHANGED <<ret, stolen>>
  /\ AllocFrame

ReleaseVoice(voiceIndex) ==
  /\ calls < MaxBypassCalls
  /\ calls' = calls + 1
  /\ VoiceAllocators' =
       [VoiceAllocators EXCEPT ![1] = VoiceAllocator_ReleaseVoice(@, voiceIndex)]
  /\ hist' = Poisoned
  /\ ev' = [AllocEvent("ReleaseVoice", -1, R0, VoiceAllocators[1])
              EXCEPT !.index = voiceIndex]
  /\ UNCHANGED <<ret, stolen, used>>
  /\ AllocFrame

NextChord ==
  \/ calls < MaxChordCalls /\ NextAlloc
  \/ \E notes \in Chords, velocity \in Velocities : PlayChord(notes, velocity)
  \/ \E notes \in Chords : ReleaseChord(notes)

SpecChord == InitAlloc /\ [][NextChord]_vars

NextBypass ==
  \/ calls < MaxBypassCalls /\ NextChord
  \/ \E voiceIndex \in VoiceIndexes, note \in Known(used),
        velocity \in Velocities : SetVoiceNote(voiceIndex, note, velocity)
  \/ \E voiceIndex \in VoiceIndexes : ReleaseVoice(voiceIndex)

SpecBypass == InitAlloc /\ [][NextBypass]_vars

ChordTypeOK == pc = "alloc" => Len(Va.voices) = maxPolyphony


\* C33: SetVoiceNote(i, note, vel) and ReleaseVoice(i) leave the note->voice
\* map, the active-note list and every voice other than voice i as they
\* were, and with i outside 0..maxVoices-1 they leave the whole allocator as
\* it was.
C33_BypassActsOnOneVoice ==
  [][(pc = "alloc" /\ ev'.op \in {"SetVoiceNote", "ReleaseVoice"})
     => /\ VaNext.noteMap = Va.noteMap
        /\ VaNext.activeNotes = Va.activeNotes
        /\ \A j \in DOMAIN Va.voices :
             j # ev'.index + 1 => VaNext.voices[j] = Va.voices[j]
        /\ (ev'.index < 0 \/ ev'.index >= Va.maxVoices) => VaNext = Va]_vars

\* SetVoiceNote(2, 69, 1.0) has started a third voice beside the two a chord
\* holds, and the map and the list still hold the chord alone
C33_Witness ==
  /\ pc = "alloc" /\ ev.op = "SetVoiceNote" /\ ev.index = 2 /\ ev.note = 69
  /\ GetActiveNotes(Va) = <<57, 69>>
  /\ DOMAIN Va.noteMap = {57, 69}
  /\ ActiveVoices(Va) = {1, 2, 3}

\* a direct call with an index past the pool has been made on an allocator
\* with mapped notes
C33_OutOfRangeReached ==
  /\ pc = "alloc" /\ ev.op \in {"SetVoiceNote", "ReleaseVoice"}
  /\ ev.index = Va.maxVoices /\ GetActiveNotes(Va) # << >>


(***************************************************************************)
(* Stream against repeated Next()                                          *)
(***************************************************************************)
\* Stream and Next() on the song, on a module of one pattern without rows and
\* on one whose second sequence entry is negative
StreamModules == {SongModule, EmptyModule, NegativeModule}

InitBuffer ==
  /\ sampleRate \in Rates
  /\ \E m \in StreamModules, t \in Tempos : module = [m EXCEPT !.Tempo = t]
  /\ Unconstructed

SpecBuffer == InitBuffer /\ [][NextStream]_vars

\* k Next() calls on p, none of which panics: the player afterwards, the
\* values returned, and whether p was done before any of the calls
RECURSIVE Player_NextTimes(_, _)
Player_NextTimes(p, k) ==
  IF k = 0 THEN [player |-> p, samples |-> << >>, wasDone |-> FALSE]
  ELSE LET r == CHOOSE r \in {Player_NextTimes(p, k - 1)} : TRUE
           s == CHOOSE s \in {Player_NextOf(r.player)} : TRUE
       IN  [player |-> s.player, samples |-> Append(r.samples, s.sample),
            wasDone |-> r.wasDone \/ r.player.done]

\* a Stream call that fills buf up to n, returns ok and leaves player q is
\* n calls of Next(), the results r of which fill both channels of frames
\* 0..n-1, stopped by nothing but the end of the buffer or a done player
StreamedAs(r, buf, n, ok, q) ==
  /\ n \in 0..Len(buf)
  /\ \A k \in 1..n : buf[k] = <<r.samples[k], r.samples[k]>>
  /\ \A k \in (n + 1)..Len(buf) : buf[k] = StaleFrame
  /\ q = r.player
  /\ ~r.wasDone
  /\ n = Len(buf) \/ r.player.done
  /\ ok = FALSE <=> (n < Len(buf) /\ r.player.done)

\* C34: a Stream(buf) call that returns has written the same sample to both
\* channels of each of the n frames it filled, that sample being what the
\* call's k-th Next() returned, has advanced the player by n Next() calls,
\* returns ok = false exactly when it found the player done before frame
\* n < len(buf), and has left the frames from n on as they were.
C34_StreamIsRepeatedNext ==
  [][(pc = "ready" /\ ev'.op = "Stream" /\ pc' = "ready")
     => \E r \in {Player_NextTimes(ThePlayer, ev'.n)} :
          StreamedAs(r, ev'.samples, ev'.n, ev'.ok, ThePlayer')]_vars

\* a Stream call on a three-frame buffer found the player done before its
\* third frame: two frames filled with sound, the third left as it was
C34_Witness ==
  /\ pc = "ready" /\ ev.op = "Stream" /\ ev.n = 2 /\ ~ev.ok
  /\ Len(ev.samples) = 3 /\ ev.samples[3] = StaleFrame
  /\ ev.samples[2][1] # R0 /\ ev.samples[2][1] = ev.samples[2][2]
  /\ done

\* a Stream call filled its whole buffer
C34_FullReached ==
  /\ pc = "ready" /\ ev.op = "Stream" /\ ev.n = 3 /\ ev.ok
  /\ ev.samples[1][1] # R0


(***************************************************************************)
(* Allocator consistency                                                   *)
(***************************************************************************)
\* C35: after any sequence of NoteOn, NoteOff, AllNotesOff, PlayChord,
\* ReleaseChord and Next calls the active-note list has no duplicates, holds
\* exactly the keys of the note->voice map, and is no longer than maxVoices.
C35_ListMatchesMap ==
  pc = "alloc"
    => /\ IsDistinct(GetActiveNotes(Va))
       /\ Range(GetActiveNotes(Va)) = DOMAIN Va.noteMap
       /\ Len(GetActiveNotes(Va)) <= Va.maxVoices

\* a chord of five notes has been played on four voices, over a chord that
\* was still mapped: the list holds the four latest notes
C35_Witness ==
  /\ pc = "alloc" /\ ev.op = "PlayChord" /\ ev.notes = <<57, 69, 45, 81, 33>>
  /\ ev.nNotes = 2
  /\ GetActiveNotes(Va) = <<69, 45, 81, 33>>

\* a chord has been released while another call's notes stay mapped
C35_ReleasedReached ==
  /\ pc = "alloc" /\ ev.op = "ReleaseChord" /\ ev.notes = <<57, 69>>
  /\ ev.nNotes = 4 /\ GetActiveNotes(Va) = <<45, 81>>


\* C36: after any sequence of NoteOn, NoteOff, AllNotesOff and Next calls no
\* two different mapped notes map to the same voice, and the voice of every
\* mapped note is active.
C36_MappedVoicesDistinctAndActive ==
  pc = "alloc"
    => /\ \A a, b \in DOMAIN Va.noteMap :
            a # b => Va.noteMap[a] # Va.noteMap[b]
       /\ \A a \in DOMAIN Va.noteMap : Voice_IsActive(Va.voices[Va.noteMap[a]])

\* four notes are mapped on four different voices after a fifth NoteOn has
\* stolen one, and Next() has run since
C36_Witness ==
  /\ pc = "alloc" /\ ev.op = "Next" /\ calls >= 6
  /\ Cardinality(DOMAIN Va.noteMap) = 4 /\ stolen # {}
  /\ Cardinality({Va.noteMap[a] : a \in DOMAIN Va.noteMap}) = 4


\* every note mapped before the step is mapped and listed after it
KeepsMapped ==
  \A a \in DOMAIN Va.noteMap :
    a \in DOMAIN VaNext.noteMap /\ a \in Range(GetActiveNotes(VaNext))

\* the step is NoteOn for a note that is not mapped
NewNoteOn == pc = "alloc" /\ ev'.op = "NoteOn" /\ ~ev'.mapped

\* the step is PlayChord of at most maxVoices notes, all different
SmallChord ==
  /\ pc = "alloc" /\ ev'.op = "PlayChord"
  /\ IsDistinct(ev'.notes) /\ Len(ev'.notes) <= Va.maxVoices

\* C37 as stated: with fewer than maxVoices notes mapped, NoteOn for a new
\* note leaves every mapped note mapped and listed, and PlayChord of
\* k <= maxVoices distinct notes with no note mapped leaves all k listed.
C37_AsStated ==
  [][/\ (NewNoteOn /\ Cardinality(DOMAIN Va.noteMap) < Va.maxVoices)
          => KeepsMapped
     /\ (SmallChord /\ DOMAIN Va.noteMap = {})
          => Range(ev'.notes) \subseteq Range(GetActiveNotes(VaNext))]_vars

\* C37, amended: with some pool voice inactive, NoteOn for a new note leaves
\* every mapped note mapped and listed, and PlayChord of k <= maxVoices
\* distinct notes with no voice active leaves all k listed.
C37_EvictsOnlyWhenNoVoiceInactive ==
  [][/\ (NewNoteOn /\ Cardinality(ActiveVoices(Va)) < Va.maxVoices)
          => KeepsMapped
     /\ (SmallChord /\ ActiveVoices(Va) = {})
          => Range(ev'.notes) \subseteq Range(GetActiveNotes(VaNext))]_vars

\* NoteOn for a new note found two notes mapped, a third voice ringing out
\* and the fourth free, and took the free one
C37_Witness ==
  /\ pc = "alloc" /\ ev.op = "NoteOn" /\ ~ev.mapped
  /\ ev.nNotes = 2 /\ ev.nActive = 3
  /\ Len(GetActiveNotes(Va)) = 3 /\ ActiveVoices(Va) = DOMAIN Va.voices

\* a chord of four has been played on a silent pool
C37_ChordReached ==
  /\ pc = "alloc" /\ ev.op = "PlayChord" /\ ev.nActive = 0 /\ calls > 1
  /\ GetActiveNotes(Va) = <<57, 69, 45, 81>>

\* the excluded case: a NoteOn evicted a note while fewer than maxVoices
\* notes were mapped, every voice being active
C37_EvictedWhileRinging ==
  /\ pc = "alloc" /\ ev.op = "NoteOn" /\ ~ev.mapped
  /\ ev.nNotes = 3 /\ ev.nActive = 4 /\ Len(GetActiveNotes(Va)) = 3


(***************************************************************************)
(* Stop() more than once                                                   *)
(***************************************************************************)
\* C38: a Stop() call made after the done channel has been closed, from
\* whichever context, does not fail and changes nothing.
C38_RepeatedStopHarmless ==
  [][(Stop /\ playback.closed)
     => /\ pc' = "ready"
        /\ playback' = [playback EXCEPT !.op = "Stop"]]_vars

\* the first Stop() does what it is for: the channel is closed and the call
\* returns
C38_FirstStopCloses ==
  [][(Stop /\ ~playback.closed) => (pc' = "ready" /\ playback'.closed)]_vars

\* a second Stop() has been made while playback was under way
C38_SecondStopReached ==
  pc = "panic" /\ playback.op = "Stop" /\ playback.closed /\ playback.playing


(***************************************************************************)
(* Release tails: calls on a pool of either kind, of every FM preset, then *)
(* AllNotesOff() and Next() until the pool is silent                       *)
(***************************************************************************)
MaxPrefixCalls == 3  \* calls made before the AllNotesOff() of a tail

FMPresetNames == {"PIANO", "EPIANO", "BASS", "LEAD", "BRASS", "BELL", "ARP"}

TailInstruments ==
  {ShortInst}
    \cup {[PianoInst EXCEPT !.Name = preset, !.FMPreset = preset] :
            preset \in FMPresetNames}

InitTail ==
  /\ \E inst \in TailInstruments :
       /\ sampleRate \in IF inst.IsFM THEN FMRates ELSE Rates
       /\ module = [Title |-> "", Tempo |-> 120, Patterns |-> << >>,
                    Sequence |-> << >>, Instruments |-> <<inst>>]
       /\ VoiceAllocators = <<NewVoiceAllocator(inst, sampleRate, maxPolyphony)>>
  /\ PlayerIdle
  /\ pc = "alloc"
  /\ calls = 0
  /\ ret = R0
  /\ hist = << >>
  /\ resets = 0
  /\ stolen = {}
  /\ used = 0
  /\ ev = NoEvent
  /\ EnvelopeIdle

\* any calls first; after AllNotesOff() only Next(), and NoteOn once no
\* voice is active
NextTail ==
  \/ ev.tail < 0 /\ calls < MaxPrefixCalls /\ NextAlloc
  \/ ev.tail < 0 /\ AllNotesOff
  \/ ev.tail >= 0 /\ AllocatorNext
  \/ /\ ev.tail >= 0 /\ ~VoiceAllocator_IsActive(Va)
     /\ \E note \in Known(used), velocity \in Velocities : NoteOn(note, velocity)

SpecTail == InitTail /\ [][NextTail]_vars

\* int(releaseTime * sampleRate), the release length of an envelope in
\* samples
ReleaseLength(e) == StageSamples(e.releaseTime, e.sampleRate)

SetMax(S) == CHOOSE x \in S : \A y \in S : y <= x

\* the longest release among the envelopes of the pool's voices
LongestRelease(va) ==
  SetMax({IF Voice_OnFMPath(va.voices[i])
          THEN SetMax({ReleaseLength(va.voices[i].fmInstrument.operators[k].envelope) :
                         k \in DOMAIN va.voices[i].fmInstrument.operators})
          ELSE ReleaseLength(va.voices[i].envelope) : i \in DOMAIN va.voices})

\* the tail that began with AllNotesOff() has had its longest release
\* length + 1 Next() calls
TailOver(e, va) == e.tail >= LongestRelease(va) + 1

\* C39: once AllNotesOff() has been followed by (longest release length in
\* samples + 1) Next() calls and no other call, no voice of the pool is
\* active; a Next() made then returns 0, and a NoteOn made then takes an
\* inactive voice and evicts nothing.
C39_ReleaseTailsEnd ==
  [][pc = "alloc"
     => /\ TailOver(ev', VaNext) => ActiveVoices(VaNext) = {}
        /\ (TailOver(ev, Va) /\ ev'.op = "Next") => ret' = R0
        /\ (TailOver(ev, Va) /\ ev'.op = "NoteOn")
             => /\ FirstInactive(Va.voices) # 0
                /\ VaNext.noteMap[ev'.note] = FirstInactive(Va.voices)
                /\ stolen' = stolen]_vars

\* the bell preset, whose carrier releases over four samples at 10 Hz: the
\* fifth Next() after AllNotesOff() found a voice active and left none
C39_Witness ==
  /\ pc = "alloc" /\ module.Instruments[1].FMPreset = "BELL"
  /\ ev.op = "Next" /\ ev.tail = 5 /\ ev.nActive > 0
  /\ LongestRelease(Va) = 4 /\ ActiveVoices(Va) = {}

\* a subtractive pool after its tail: NoteOn has taken a free voice
C39_FreeVoiceReached ==
  /\ pc = "alloc" /\ ~module.Instruments[1].IsFM
  /\ ev.op = "NoteOn" /\ ev.nActive = 0 /\ calls > 4
  /\ Cardinality(ActiveVoices(Va)) = 1

\* the bass preset, with an operator ratio of 2.01, has ended a tail too
C39_BassReached ==
  /\ pc = "alloc" /\ module.Instruments[1].FMPreset = "BASS"
  /\ ev.op = "Next" /\ ev.tail = 2 /\ ev.nActive = 2
  /\ ActiveVoices(Va) = {}

\* the tail is not shorter: one call before, a voice is still active
C39_LastCallNeeded ==
  /\ pc = "alloc" /\ ev.op = "Next" /\ ev.tail = LongestRelease(Va)
  /\ ev.tail > 0 /\ ActiveVoices(Va) # {}

====
